---- MODULE Spec2Model ----
(***************************************************************************)
(* Locality IDB: the transaction orchestrator, the insert / update /       *)
(* delete / select builders, import and the readiness gate, over a model   *)
(* of the host engine (IndexedDB) transaction and request events.          *)
(*                                                                         *)
(* Field values are integers: a positive number is a JavaScript integer,   *)
(* a negative number stands for a string ("a" = -1, "b" = -2), 0 is        *)
(* undefined.                                                              *)
(*                                                                         *)
(* One action is one task of the JavaScript event loop (a host-engine      *)
(* event and the handler the code registered for it) or one run of pending *)
(* promise continuations (micro-tasks).  Micro-tasks run before the next   *)
(* task: task actions are guarded by ~MicroPending.                        *)
(***************************************************************************)
EXTENDS Integers, Sequences, FiniteSets, TLC

VARIABLES
    ready,   \* #readyPromise: "pending" | "resolved" | "rejected"
    store,   \* committed contents of the host engine: [rows, gen]
    txs,     \* host-engine transactions, in order of creation
    ops,     \* terminal calls of builders (run / findAll / ...), in order of creation
    evt,     \* error event being dispatched: after request.onerror, before transaction.onerror
    outer,   \* promise returned by Locality.transaction and its book-keeping
    cb,      \* the user callback passed to Locality.transaction
    imp,     \* Locality.import call
    pre,     \* ghost: committed contents when the operation under study was called
    config,  \* LocalityConfig.schema handed to the constructor: tables and their columns
    ctor,    \* the constructor call: #buildStoresConfig and the open request
    disk,    \* the database in the host engine: its version and object stores
    conn,    \* open requests of openDBWithStores and what the client keeps of them
    columns, \* the column definitions of the table "docs"
    ev       \* one call of validateAndPrepareData, of a select builder or of
             \* exportToObject, and its result

\* the state of the calls on an opened client
txvars == <<ready, store, txs, ops, evt, outer, cb, imp, pre>>

\* the state of one evaluation of the validation pipeline or of a select builder
evalvars == <<columns, ev>>

\* the state of constructing and opening a client, and of the evaluations
auxvars == <<config, ctor, disk, conn, evalvars>>

vars == <<ready, store, txs, ops, evt, outer, cb, imp, pre, auxvars>>

----------------------------------------------------------------------------
(* Bounds *)

MaxOps == 2      \* terminal calls in one behaviour
MaxBatch == 2    \* records in one insert batch / rows of one imported table

----------------------------------------------------------------------------
(* Values, schema *)

Undef == 0
StrA == 0 - 1
StrB == 0 - 2
UuidV == 0 - 3       \* a string uuidV4() returns
StampV == 0 - 4      \* a string getTimestamp() returns

isInteger(v) == v > 0
isString(v) == v < 0
isUndefined(v) == v = Undef

Tables == {"users", "posts"}

\* users { id: int pk auto, email: text unique }   posts { id: int pk auto, title: text }
\* docs: the columns the variable of that name holds
ColNames(t) ==
    IF t = "users" THEN {"id", "email"}
    ELSE IF t = "docs" THEN DOMAIN columns
    ELSE {"id", "title"}

Col(t, c) ==
    IF t = "docs" THEN columns[c]
    ELSE IF c = "id"
    THEN [type |-> "int", pk |-> TRUE, auto |-> TRUE, unique |-> FALSE,
          optional |-> FALSE, default |-> Undef, validator |-> "none", onUpdate |-> "none"]
    ELSE [type |-> "text", pk |-> FALSE, auto |-> FALSE, unique |-> (c = "email"),
          optional |-> FALSE, default |-> Undef, validator |-> "none", onUpdate |-> "none"]

\* #keyPaths[table] / #extractTablePk: the name of the primary-key column
KeyPath(t) == CHOOSE c \in ColNames(t) : Col(t, c).pk

UniqueCols(t) == {c \in ColNames(t) : ~Col(t, c).pk /\ Col(t, c).unique}

\* IndexedDB key order: numbers sort before strings
KeyLess(a, b) ==
    \/ a > 0 /\ b < 0
    \/ a > 0 /\ b > 0 /\ a < b
    \/ a < 0 /\ b < 0 /\ a > b

----------------------------------------------------------------------------
(* Validation pipeline: validateAndPrepareData *)

\* a built-in check that accepts every value
validateColumnTypeBug(type, v) == TRUE

validateColumnType(type, v) ==
    CASE type = "int" -> isInteger(v)
      [] type = "text" -> isString(v)
      [] type = "uuid" -> v = UuidV
      [] type = "timestamp" -> v = StampV
      [] OTHER -> TRUE

\* column[ValidateFn](fieldValue) returns no message: "any" accepts every value,
\* "never" accepts none
CustomAccepts(validator, v) == validator = "any"

\* a pipeline that runs the built-in check next to the custom validator
ValueAcceptedBug(col, v) ==
    /\ col.validator # "none" => CustomAccepts(col.validator, v)
    /\ validateColumnType(col.type, v)

\* isFunction(customValidator) ? customValidator(fieldValue) : validateColumnType(...)
ValueAccepted(col, v) ==
    IF col.validator # "none" THEN CustomAccepts(col.validator, v)
    ELSE validateColumnType(col.type, v)

AutoGenerated(t, c, raw, forUpdate) ==
    /\ ~forUpdate
    /\ c \notin DOMAIN raw
    /\ Col(t, c).type \in {"uuid", "timestamp"}
    /\ isUndefined(Col(t, c).default)

DefaultApplied(t, c, raw, forUpdate) ==
    /\ ~forUpdate
    /\ c \notin DOMAIN raw
    /\ ~AutoGenerated(t, c, raw, forUpdate)
    /\ ~isUndefined(Col(t, c).default)

\* a pipeline that asks for every column on updates too
MissingIsOkBug(t, c, forUpdate) == Col(t, c).optional \/ c = KeyPath(t)

\* if (forUpdate) return; if (!isOptional && fieldName !== keyPath) throw ...
MissingIsOk(t, c, forUpdate) == forUpdate \/ Col(t, c).optional \/ c = KeyPath(t)

\* one iteration of Object.entries(columns).forEach: what it throws, "none" when it
\* returns
ColumnError(t, c, raw, forUpdate) ==
    LET col == Col(t, c)
        fieldNotPresent == c \notin DOMAIN raw /\ ~DefaultApplied(t, c, raw, forUpdate)
        fieldValue == IF c \in DOMAIN raw THEN raw[c] ELSE col.default
        shouldSkip == ~forUpdate /\ c = KeyPath(t) /\ col.auto
    IN  IF AutoGenerated(t, c, raw, forUpdate) THEN "none"
        ELSE IF fieldNotPresent
        THEN (IF MissingIsOk(t, c, forUpdate) THEN "none" ELSE "RequiredFieldMissing")
        ELSE IF isUndefined(fieldValue)
        THEN (IF col.optional \/ c = KeyPath(t) THEN "none" ELSE "CannotBeUndefined")
        ELSE IF shouldSkip THEN "none"
        ELSE IF ValueAccepted(col, fieldValue) THEN "none" ELSE "InvalidValue"

ColumnOk(t, c, raw, forUpdate) == ColumnError(t, c, raw, forUpdate) = "none"

\* TRUE when validateAndPrepareData returns, FALSE when it throws
Valid(t, raw, forUpdate) ==
    /\ DOMAIN raw \subseteq ColNames(t)
    /\ \A c \in ColNames(t) : ColumnOk(t, c, raw, forUpdate)

\* uuidV4() / getTimestamp()
Generated(type) == IF type = "uuid" THEN UuidV ELSE StampV

\* the record validateAndPrepareData returns
Prepared(t, raw, forUpdate) ==
    LET added == {c \in ColNames(t) : DefaultApplied(t, c, raw, forUpdate)}
        made == {c \in ColNames(t) : AutoGenerated(t, c, raw, forUpdate)}
    IN  [c \in DOMAIN raw \cup added \cup made |->
            IF c \in DOMAIN raw THEN raw[c]
            ELSE IF c \in made THEN Generated(Col(t, c).type)
            ELSE Col(t, c).default]

\* { ...row, ...patch }
Merge(row, patch) ==
    [c \in DOMAIN row \cup DOMAIN patch |->
        IF c \in DOMAIN patch THEN patch[c] ELSE row[c]]

\* column[OnUpdate](current): "inc" is (current) => (current ?? 0) + 1,
\* "stamp" is () => getTimestamp()
OnUpdateHook(kind, current) ==
    CASE kind = "inc" -> (IF isUndefined(current) THEN 1
                          ELSE IF isInteger(current) THEN current + 1
                          ELSE StrB)     \* a string + 1 is another string
      [] kind = "stamp" -> StampV
      [] OTHER -> current

\* the merged record after the update-hooks: every column that declares one gets what
\* its hook returns for the row's current value, whatever the patch holds
ApplyOnUpdate(t, row, merged) ==
    LET hooked == {c \in ColNames(t) : Col(t, c).onUpdate # "none"}
    IN  [c \in DOMAIN merged \cup hooked |->
            IF c \in hooked
            THEN OnUpdateHook(Col(t, c).onUpdate, IF c \in DOMAIN row THEN row[c] ELSE Undef)
            ELSE merged[c]]

\* the record UpdateQuery.run validates and puts for a row
UpdatedRow(t, row, patch) == ApplyOnUpdate(t, row, Merge(row, patch))

----------------------------------------------------------------------------
(* Host engine: object stores with a key generator and unique indexes *)

\* the key a record is stored under: its key-path value, else the generator's number
RecKey(w, t, rec) ==
    IF KeyPath(t) \in DOMAIN rec /\ ~isUndefined(rec[KeyPath(t)])
    THEN rec[KeyPath(t)] ELSE w.gen[t]

WithKey(w, t, rec) ==
    [c \in DOMAIN rec \cup {KeyPath(t)} |->
        IF c = KeyPath(t) THEN RecKey(w, t, rec) ELSE rec[c]]

RowOfKey(w, t, k) == {r \in w.rows[t] : r[KeyPath(t)] = k}

UniqueConflict(w, t, full) ==
    \E r \in w.rows[t] :
        /\ r[KeyPath(t)] # full[KeyPath(t)]
        /\ \E c \in UniqueCols(t) : c \in DOMAIN r /\ c \in DOMAIN full /\ r[c] = full[c]

GenAfter(w, t, k) ==
    IF isInteger(k) /\ k >= w.gen[t] THEN [w.gen EXCEPT ![t] = k + 1] ELSE w.gen

\* store.add(rec): fails on an existing key or a unique-index conflict
AddFails(w, t, rec) ==
    LET full == WithKey(w, t, rec)
    IN  RowOfKey(w, t, full[KeyPath(t)]) # {} \/ UniqueConflict(w, t, full)

\* store.put(rec): fails on a unique-index conflict only
PutFails(w, t, rec) == UniqueConflict(w, t, WithKey(w, t, rec))

AfterPut(w, t, rec) ==
    LET full == WithKey(w, t, rec)
        k == full[KeyPath(t)]
    IN  [rows |-> [w.rows EXCEPT ![t] = (@ \ RowOfKey(w, t, k)) \cup {full}],
         gen |-> GenAfter(w, t, k)]

\* a delete that empties the store
AfterDeleteBug(w, t, k) == [w EXCEPT !.rows[t] = {}]

AfterDelete(w, t, k) == [w EXCEPT !.rows[t] = @ \ RowOfKey(w, t, k)]

AfterClear(w, t) == [w EXCEPT !.rows[t] = {}]

\* store.getAll(): the rows in key order
RECURSIVE RowsInKeyOrder(_, _)
RowsInKeyOrder(t, rows) ==
    IF rows = {} THEN <<>>
    ELSE LET first == CHOOSE r \in rows :
                        \A q \in rows \ {r} : KeyLess(r[KeyPath(t)], q[KeyPath(t)])
         IN  <<first>> \o RowsInKeyOrder(t, rows \ {first})

----------------------------------------------------------------------------
(* Host engine: transactions, requests and their events *)

\* who a handler slot or a request callback belongs to
HNone == 0            \* no handler assigned
HOuter == 0 - 1       \* the promise Locality.transaction returns
HImport == 0 - 2      \* the promise Locality.import returns

NoRec == [id |-> Undef]

Request(owner, kind, t, rec, key) ==
    [owner |-> owner, kind |-> kind, tbl |-> t, rec |-> rec, key |-> key]

\* db.transaction(scope, mode) with the three handler slots
NewTx(mode, scope, oc, oa, oe) ==
    [state |-> "active", mode |-> mode, scope |-> scope, started |-> FALSE,
     work |-> store, queue |-> <<>>,
     oncomplete |-> oc, onabort |-> oa, onerror |-> oe, error |-> "null",
     violated |-> FALSE]   \* ghost: a write request of it failed on a constraint

Finished(x) == x.state \in {"committed", "aborted"}

\* transactions with overlapping scopes run one after the other unless both only read
CanRun(t) ==
    \A u \in 1..(t - 1) :
        \/ Finished(txs[u])
        \/ txs[u].scope \cap txs[t].scope = {}
        \/ txs[u].mode = "readonly" /\ txs[t].mode = "readonly"

\* the contents transaction t reads and writes
Work(t) == IF txs[t].started THEN txs[t].work ELSE store

\* a commit that writes nothing
CommittedBug(t) == store

Committed(t) ==
    [rows |-> [u \in Tables |-> IF u \in txs[t].scope THEN Work(t).rows[u] ELSE store.rows[u]],
     gen |-> [u \in Tables |-> IF u \in txs[t].scope THEN Work(t).gen[u] ELSE store.gen[u]]]

Settled(o) == o.st \in {"fulfilled", "rejected"}

\* promise continuations (micro-tasks) of the transaction callback are waiting to run
MicroPending ==
    \/ cb.pc = "running"
    \/ cb.pc = "awaitOp" /\ Settled(ops[cb.waiting])
    \/ \E o \in 1..Len(ops) : ops[o].scoped /\ ops[o].st = "waitReady"

TaskTurn == ~MicroPending /\ evt.phase = "none"

\* _abortTransaction(error, reject): reject(error || new Error(...))
_abortTransaction(error) == IF error = "null" THEN "AbortedError" ELSE error

\* reject(e) of the promise handler h belongs to; a settled promise stays as it is
OpsRejected(os, h, e) ==
    IF h >= 1 /\ os[h].st = "running"
    THEN [os EXCEPT ![h].st = "rejected", ![h].err = e] ELSE os

OuterRejected(o, h, e) ==
    IF h = HOuter /\ o.st = "pending"
    THEN [o EXCEPT !.st = "rejected", !.err = e] ELSE o

----------------------------------------------------------------------------
(* Builders: a terminal call is one entry of ops *)

NewOp(kind, t, scoped, batch, patch, pred) ==
    [kind |-> kind, tbl |-> t, scoped |-> scoped, batch |-> batch, patch |-> patch,
     pred |-> pred, st |-> "waitReady", err |-> "none", tx |-> 0,
     keys |-> <<>>, completed |-> 0, reads |-> 0, total |-> 0, count |-> 0,
     result |-> {}, method |-> "run",
     issued |-> 0,         \* ghost: write requests the call has issued
     early |-> FALSE]      \* ghost: called while #readyPromise was pending

\* where(predicate): the rows a predicate keeps; "all" is a builder without where()
Matches(pred, row) ==
    CASE pred = "all" -> TRUE
      [] pred = "idIs1" -> row["id"] = 1
      [] pred = "idIs3" -> row["id"] = 3
      [] pred = "tagIsA" -> row["tag"] = StrA
      [] OTHER -> FALSE

\* the shared transaction of Locality.transaction, when there is one
ScopeTx == outer.tx

\* a builder that ignores the transaction it was bound to
GetStoreTxBug(o) == 0

\* this.#transaction ?? this.#dbGetter().transaction(table, mode):
\* the transaction a terminal call issues its requests on (0: a new one)
GetStoreTx(o) == IF ops[o].scoped THEN ScopeTx ELSE 0

\* transaction.objectStore() or the first request throws: the shared transaction has
\* finished, or it is not active in the current task
ScopeUnusable(o) ==
    /\ GetStoreTx(o) # 0
    /\ (txs[GetStoreTx(o)].state = "active" => cb.active # GetStoreTx(o))

\* what that throw is
ScopeError(o) ==
    IF txs[GetStoreTx(o)].state # "active" THEN "InvalidStateError"
    ELSE "TransactionInactiveError"

\* a terminal call opens at most two transactions (InsertQuery.run: write, then read back)
MaxTxs == 2 * MaxOps + 1

\* a terminal method of the select builder that does not await the signal
AwaitsReadyBug(kind) == kind # "select"

\* every terminal method starts with: await this.#readyPromise
AwaitsReady(kind) == TRUE

CanStart(o) ==
    /\ o \in 1..Len(ops)
    /\ ops[o].st = "waitReady"
    /\ AwaitsReady(ops[o].kind) => ready = "resolved"
    /\ GetStoreTx(o) = 0 => Len(txs) < MaxTxs

\* the transaction id a terminal call uses, and the transactions after it was obtained
TxIdFor(o, mode) == IF GetStoreTx(o) # 0 THEN GetStoreTx(o) ELSE Len(txs) + 1

TxsFor(o, mode) ==
    IF GetStoreTx(o) # 0 THEN txs
    ELSE Append(txs, NewTx(mode, {ops[o].tbl}, HNone, HNone, HNone))

\* the await of a rejected #readyPromise throws
ReadyFailed(o) ==
    /\ o \in 1..Len(ops)
    /\ ops[o].st = "waitReady"
    /\ ready = "rejected"
    /\ ops' = [ops EXCEPT ![o].st = "rejected", ![o].err = "OpenError"]
    /\ UNCHANGED <<ready, store, txs, evt, outer, cb, imp, pre, auxvars>>

(* InsertQuery.run *)

\* position of the first record of the batch validateAndPrepareData throws on
RECURSIVE FirstInvalid(_, _, _)
FirstInvalid(t, batch, i) ==
    IF i > Len(batch) THEN i
    ELSE IF ~Valid(t, batch[i], FALSE) THEN i
    ELSE FirstInvalid(t, batch, i + 1)

AddRequests(o, t, batch, n) ==
    [i \in 1..n |-> Request(o, "add", t, Prepared(t, batch[i], FALSE), Undef)]

\* the executor of the promise run() returns, up to the handler assignments
InsertRun(o) ==
    /\ CanStart(o)
    /\ ops[o].kind = "insert"
    /\ LET op == ops[o]
           bad == FirstInvalid(op.tbl, op.batch, 1)
           id == TxIdFor(o, "readwrite")
           base == TxsFor(o, "readwrite")
       IN  IF Len(op.batch) = 0
           THEN /\ ops' = [ops EXCEPT ![o].st = "fulfilled"]
                /\ txs' = txs
           ELSE IF ScopeUnusable(o)
           THEN /\ ops' = [ops EXCEPT ![o].st = "rejected", ![o].err =
                              IF bad = 1 /\ txs[GetStoreTx(o)].state = "active"
                              THEN "ValidationError" ELSE ScopeError(o)]
                /\ txs' = txs
           ELSE IF bad <= Len(op.batch)
           THEN \* validateAndPrepareData throws inside the loop: the requests of the
                \* records before it are issued, the handlers below are never assigned
                /\ ops' = [ops EXCEPT ![o].st = "rejected", ![o].err = "ValidationError",
                                      ![o].tx = id, ![o].issued = bad - 1]
                /\ txs' = [base EXCEPT ![id].queue =
                              @ \o AddRequests(o, op.tbl, op.batch, bad - 1)]
           ELSE /\ ops' = [ops EXCEPT ![o].st = "running", ![o].tx = id,
                                      ![o].issued = Len(op.batch)]
                /\ txs' = [base EXCEPT
                              ![id].queue = @ \o AddRequests(o, op.tbl, op.batch, Len(op.batch)),
                              ![id].oncomplete = IF op.scoped THEN @ ELSE o,
                              ![id].onabort = o,
                              ![id].onerror = o]
    /\ UNCHANGED <<ready, store, evt, outer, cb, imp, pre, auxvars>>

\* the transaction whose event handlers run is the active one of the task
CbActive(t) == IF cb.pc = "idle" THEN cb ELSE [cb EXCEPT !.active = t]

\* a runnable transaction whose first pending request is of this kind and owner
HeadIs(t, kind, opkind) ==
    /\ t \in 1..Len(txs)
    /\ TaskTurn
    /\ txs[t].state = "active"
    /\ txs[t].queue # <<>>
    /\ CanRun(t)
    /\ Head(txs[t].queue).kind = kind
    /\ Head(txs[t].queue).owner >= 1
    /\ ops[Head(txs[t].queue).owner].kind = opkind

GetRequests(o, t, keys) ==
    [i \in 1..Len(keys) |-> Request(o, "get", t, NoRec, keys[i])]

\* request.onsuccess of store.add
InsertAddSuccess(t) ==
    /\ HeadIs(t, "add", "insert")
    /\ LET r == Head(txs[t].queue)
           o == r.owner
           op == ops[o]
           w == Work(t)
           keys == Append(op.keys, RecKey(w, r.tbl, r.rec))
           done == op.completed + 1 = Len(op.batch)
       IN  /\ ~AddFails(w, r.tbl, r.rec)
           /\ ops' = [ops EXCEPT ![o].keys = keys, ![o].completed = @ + 1]
           /\ txs' = [txs EXCEPT
                         ![t].started = TRUE,
                         ![t].work = AfterPut(w, r.tbl, r.rec),
                         ![t].queue =
                            IF done /\ op.scoped
                            THEN Tail(@) \o GetRequests(o, r.tbl, keys)
                            ELSE Tail(@)]
    /\ cb' = CbActive(t)
    /\ UNCHANGED <<ready, store, evt, outer, imp, pre, auxvars>>

\* a handler that cancels the error event: the transaction is not aborted
PreventsDefaultBug(owner) == TRUE

\* request.onerror = () => reject(request.error): the event is not cancelled
PreventsDefault(owner) == FALSE

\* request.onerror of a failed store.add / store.put; the event then bubbles
WriteError(t) ==
    /\ t \in 1..Len(txs)
    /\ TaskTurn
    /\ txs[t].state = "active"
    /\ txs[t].queue # <<>>
    /\ CanRun(t)
    /\ LET r == Head(txs[t].queue)
           w == Work(t)
       IN  /\ r.owner >= 1
           /\ IF r.kind = "add" THEN AddFails(w, r.tbl, r.rec)
              ELSE r.kind = "put" /\ PutFails(w, r.tbl, r.rec)
           /\ ops' = OpsRejected(ops, r.owner, "ConstraintError")
           /\ evt' = [phase |-> "bubble", tx |-> t, err |-> "ConstraintError",
                      dflt |-> ~PreventsDefault(r.owner)]
           /\ txs' = [txs EXCEPT ![t].started = TRUE, ![t].work = w, ![t].queue = Tail(@),
                                 ![t].violated = TRUE]
    /\ cb' = CbActive(t)
    /\ UNCHANGED <<ready, store, outer, imp, pre, auxvars>>

\* request.onsuccess of store.get: the read-back of the inserted records
InsertGetSuccess(t) ==
    /\ HeadIs(t, "get", "insert")
    /\ LET r == Head(txs[t].queue)
           o == r.owner
           op == ops[o]
           done == op.reads + 1 = Len(op.keys)
       IN  /\ ops' = [ops EXCEPT ![o].reads = @ + 1,
                                 ![o].result = @ \cup RowOfKey(Work(t), r.tbl, r.key),
                                 ![o].st = IF done /\ @ = "running" THEN "fulfilled" ELSE @]
           /\ txs' = [txs EXCEPT ![t].started = TRUE, ![t].work = Work(t),
                                 ![t].queue = Tail(@)]
    /\ cb' = CbActive(t)
    /\ UNCHANGED <<ready, store, evt, outer, imp, pre, auxvars>>

(* UpdateQuery.run and DeleteQuery.run *)

\* the executor of the promise run() returns: store.getAll() and transaction.onabort
ScanRun(o) ==
    /\ CanStart(o)
    /\ ops[o].kind \in {"update", "delete"}
    /\ LET op == ops[o]
           id == TxIdFor(o, "readwrite")
           base == TxsFor(o, "readwrite")
       IN  IF op.kind = "update" /\ op.patch = NoRec
           THEN \* isNotEmptyObject(this.#dataToUpdate) fails
                /\ ops' = [ops EXCEPT ![o].st = "rejected", ![o].err = "Error"]
                /\ txs' = txs
           ELSE IF ScopeUnusable(o)
           THEN /\ ops' = [ops EXCEPT ![o].st = "rejected", ![o].err = ScopeError(o)]
                /\ txs' = txs
           ELSE /\ ops' = [ops EXCEPT ![o].st = "running", ![o].tx = id]
                /\ txs' = [base EXCEPT
                              ![id].queue = Append(@, Request(o, "getAll", op.tbl, NoRec, Undef)),
                              ![id].onabort = o]
    /\ UNCHANGED <<ready, store, evt, outer, cb, imp, pre, auxvars>>

\* a run() that writes nothing back
RowRequestsBug(o, rows) == <<>>

\* the requests rows.map(...) issues: a put of the merged record for every row
\* validateAndPrepareData accepts (a throw rejects that row's promise only), a delete
\* by primary key for every row
RowRequests(o, rows) ==
    LET op == ops[o]
        kept == IF op.kind = "update"
                THEN SelectSeq(rows, LAMBDA r : Valid(op.tbl, UpdatedRow(op.tbl, r, op.patch), TRUE))
                ELSE rows
    IN  [i \in 1..Len(kept) |->
            IF op.kind = "update"
            THEN Request(o, "put", op.tbl,
                         Prepared(op.tbl, UpdatedRow(op.tbl, kept[i], op.patch), TRUE), Undef)
            ELSE Request(o, "delete", op.tbl, NoRec, kept[i][KeyPath(op.tbl)])]

\* request.onsuccess of store.getAll() in UpdateQuery.run / DeleteQuery.run
ScanSuccess(t) ==
    /\ t \in 1..Len(txs)
    /\ TaskTurn
    /\ txs[t].state = "active"
    /\ txs[t].queue # <<>>
    /\ CanRun(t)
    /\ Head(txs[t].queue).kind = "getAll"
    /\ Head(txs[t].queue).owner >= 1
    /\ ops[Head(txs[t].queue).owner].kind \in {"update", "delete"}
    /\ LET o == Head(txs[t].queue).owner
           op == ops[o]
           rows == RowsInKeyOrder(op.tbl, {r \in Work(t).rows[op.tbl] : Matches(op.pred, r)})
           reqs == RowRequests(o, rows)
       IN  /\ ops' = [ops EXCEPT
                         ![o].total = Len(rows),
                         ![o].issued = Len(reqs),
                         ![o].st = IF @ # "running" THEN @
                                   ELSE IF Len(reqs) < Len(rows) THEN "rejected"
                                   ELSE IF Len(rows) = 0 THEN "fulfilled"
                                   ELSE @,
                         ![o].err = IF ops[o].st = "running" /\ Len(reqs) < Len(rows)
                                    THEN "ValidationError" ELSE @]
           /\ txs' = [txs EXCEPT ![t].started = TRUE, ![t].work = Work(t),
                                 ![t].queue = Tail(@) \o reqs]
    /\ cb' = CbActive(t)
    /\ UNCHANGED <<ready, store, evt, outer, imp, pre, auxvars>>

\* putRequest.onsuccess / delRequest.onsuccess: count, and resolve with the last one
RowWriteSuccess(t) ==
    /\ t \in 1..Len(txs)
    /\ TaskTurn
    /\ txs[t].state = "active"
    /\ txs[t].queue # <<>>
    /\ CanRun(t)
    /\ Head(txs[t].queue).kind \in {"put", "delete"}
    /\ Head(txs[t].queue).owner >= 1
    /\ LET r == Head(txs[t].queue)
           o == r.owner
           w == Work(t)
       IN  /\ r.kind = "put" => ~PutFails(w, r.tbl, r.rec)
           /\ ops' = [ops EXCEPT
                         ![o].count = @ + 1,
                         ![o].st = IF @ = "running" /\ ops[o].count + 1 = ops[o].total
                                   THEN "fulfilled" ELSE @]
           /\ txs' = [txs EXCEPT
                         ![t].started = TRUE,
                         ![t].work = IF r.kind = "put" THEN AfterPut(w, r.tbl, r.rec)
                                     ELSE AfterDelete(w, r.tbl, r.key),
                         ![t].queue = Tail(@)]
    /\ cb' = CbActive(t)
    /\ UNCHANGED <<ready, store, evt, outer, imp, pre, auxvars>>

(* SelectQuery: findAll, findFirst, findByPk, findByIndex, count, exists *)

\* the host-engine read a terminal method of the select builder issues
ReadKind(method) ==
    CASE method = "findByPk" -> "get"
      [] method \in {"count", "exists"} -> "count"
      [] OTHER -> "getAll"

\* the executor: #getStore() and one read request
SelectRun(o) ==
    /\ CanStart(o)
    /\ ops[o].kind = "select"
    /\ LET op == ops[o]
           id == TxIdFor(o, "readonly")
           base == TxsFor(o, "readonly")
       IN  IF ScopeUnusable(o)
           THEN /\ ops' = [ops EXCEPT ![o].st = "rejected", ![o].err = ScopeError(o)]
                /\ txs' = txs
           ELSE /\ ops' = [ops EXCEPT ![o].st = "running", ![o].tx = id]
                /\ txs' = [base EXCEPT ![id].queue =
                              Append(@, Request(o, ReadKind(op.method), op.tbl, NoRec, 1))]
    /\ UNCHANGED <<ready, store, evt, outer, cb, imp, pre, auxvars>>

\* request.onsuccess of the read: the rows the where() predicate keeps
SelectSuccess(t) ==
    /\ t \in 1..Len(txs)
    /\ TaskTurn
    /\ txs[t].state = "active"
    /\ txs[t].queue # <<>>
    /\ CanRun(t)
    /\ Head(txs[t].queue).owner >= 1
    /\ ops[Head(txs[t].queue).owner].kind = "select"
    /\ LET r == Head(txs[t].queue)
           o == r.owner
           from == IF r.kind = "get" THEN RowOfKey(Work(t), r.tbl, r.key)
                   ELSE Work(t).rows[r.tbl]
           rows == {x \in from : Matches(ops[o].pred, x)}
       IN  /\ ops' = [ops EXCEPT ![o].result = rows, ![o].count = Cardinality(rows),
                                 ![o].st = IF @ = "running" THEN "fulfilled" ELSE @]
           /\ txs' = [txs EXCEPT ![t].started = TRUE, ![t].work = Work(t),
                                 ![t].queue = Tail(@)]
    /\ cb' = CbActive(t)
    /\ UNCHANGED <<ready, store, evt, outer, imp, pre, auxvars>>

(* Host-engine events of the transaction itself *)

NoEvt == [phase |-> "none", tx |-> 0, err |-> "none", dflt |-> FALSE]

ImpRejected(i, h, e) ==
    IF h = HImport /\ i.st = "pending"
    THEN [i EXCEPT !.st = "rejected", !.err = e] ELSE i

\* the error event reaches the transaction: transaction.onerror runs, then the host
\* engine aborts the transaction unless the event was cancelled
ErrorBubble ==
    /\ evt.phase = "bubble"
    /\ ~MicroPending
    /\ LET t == evt.tx
           h == txs[t].onerror
           e == txs[t].error
       IN  /\ ops' = OpsRejected(ops, h, e)
           /\ outer' = OuterRejected(outer, h, e)
           /\ imp' = ImpRejected(imp, h, e)
           /\ txs' = IF evt.dflt /\ txs[t].state = "active"
                     THEN [txs EXCEPT ![t].state = "aborting", ![t].error = evt.err]
                     ELSE txs
    /\ evt' = NoEvt
    /\ UNCHANGED <<ready, store, cb, pre, auxvars>>

\* a request still pending when its transaction aborts fails with AbortError
RequestAborted(t) ==
    /\ t \in 1..Len(txs)
    /\ TaskTurn
    /\ txs[t].state = "aborting"
    /\ txs[t].queue # <<>>
    /\ ops' = OpsRejected(ops, Head(txs[t].queue).owner, "AbortError")
    /\ evt' = [phase |-> "bubble", tx |-> t, err |-> "AbortError", dflt |-> FALSE]
    /\ txs' = [txs EXCEPT ![t].queue = Tail(@)]
    /\ cb' = CbActive(0)
    /\ UNCHANGED <<ready, store, outer, imp, pre, auxvars>>

\* the abort event: transaction.onabort runs
AbortEvent(t) ==
    /\ t \in 1..Len(txs)
    /\ TaskTurn
    /\ txs[t].state = "aborting"
    /\ txs[t].queue = <<>>
    /\ LET h == txs[t].onabort
           e == _abortTransaction(txs[t].error)
       IN  /\ ops' = OpsRejected(ops, h, e)
           /\ outer' = OuterRejected(outer, h, e)
           /\ imp' = ImpRejected(imp, h, e)
    /\ txs' = [txs EXCEPT ![t].state = "aborted"]
    /\ cb' = CbActive(0)
    /\ UNCHANGED <<ready, store, evt, pre, auxvars>>

\* no request is pending when the task ends: the host engine commits the transaction
\* and fires complete; transaction.oncomplete runs
TxComplete(t) ==
    /\ t \in 1..Len(txs)
    /\ TaskTurn
    /\ txs[t].state = "active"
    /\ txs[t].queue = <<>>
    /\ CanRun(t)
    /\ store' = Committed(t)
    /\ LET h == txs[t].oncomplete
           done == [txs EXCEPT ![t].state = "committed"]
       IN  /\ outer' = IF h = HOuter /\ outer.st = "pending"
                       THEN [outer EXCEPT !.st = "fulfilled"] ELSE outer
           /\ txs' = IF h >= 1
                     THEN \* InsertQuery.run outside a transaction: read the records back
                          Append(done, [NewTx("readonly", {ops[h].tbl}, HNone, HNone, HNone)
                                           EXCEPT !.queue = GetRequests(h, ops[h].tbl, ops[h].keys)])
                     ELSE done
    /\ cb' = CbActive(0)
    /\ UNCHANGED <<ready, ops, evt, imp, pre, auxvars>>

----------------------------------------------------------------------------
(* The connection: openDBWithStores settles #readyPromise *)

ReadyResolve ==
    /\ ready = "pending"
    /\ ready' = "resolved"
    /\ UNCHANGED <<store, txs, ops, evt, outer, cb, imp, pre, auxvars>>

ReadyReject ==
    /\ ready = "pending"
    /\ ready' = "rejected"
    /\ UNCHANGED <<store, txs, ops, evt, outer, cb, imp, pre, auxvars>>

EmptyStore == [rows |-> [t \in Tables |-> {}], gen |-> [t \in Tables |-> 1]]

NoOuter == [st |-> "none", err |-> "none", tx |-> 0]
NoCb == [pc |-> "idle", waiting |-> 0, active |-> 0, isAsync |-> TRUE, first |-> FALSE,
         err |-> "none", calls |-> 0, slept |-> FALSE,
         caught |-> FALSE]     \* ghost: it caught the rejection of a call it awaited
NoImp == [st |-> "none", err |-> "none", tx |-> 0, mode |-> "merge", data |-> <<>>,
          failed |-> FALSE]    \* ghost: a record failed validation or its write failed

\* no constructor call is under study
NoConfig == <<>>
NoCtor == [st |-> "none", i |-> 0, stores |-> <<>>, err |-> 0, opens |-> 0]

\* a database that does not exist yet
NoDisk == [version |-> 0, stores |-> <<>>]
NoConn == [reqs |-> <<>>,       \* open requests the host engine has not served yet
           done |-> <<>>,       \* the served ones, with what they left behind
           db |-> 0,            \* this.#db.version (0: no connection yet)
           cur |-> FALSE,       \* this.#db is an open connection
           live |-> 0,          \* open connections to the database
           keyPaths |-> {},     \* tables with an entry in this.#keyPaths
           schema |-> <<>>,     \* this.#schema as StoreConfig[]: table -> index names
           calls |-> <<>>]      \* dropTable calls waiting for #readyPromise

\* docs { id: int pk auto, f: text }
PlainColumns ==
    [id |-> [type |-> "int", pk |-> TRUE, auto |-> TRUE, unique |-> FALSE,
             optional |-> FALSE, default |-> Undef, validator |-> "none", onUpdate |-> "none"],
     f |-> [type |-> "text", pk |-> FALSE, auto |-> FALSE, unique |-> FALSE,
            optional |-> FALSE, default |-> Undef, validator |-> "none", onUpdate |-> "none"]]

\* nothing is being evaluated
NoEv == [st |-> "none"]

EvalIdle ==
    /\ columns = PlainColumns
    /\ ev = NoEv

AuxIdle ==
    /\ EvalIdle
    /\ config = NoConfig
    /\ ctor = NoCtor
    /\ disk = NoDisk
    /\ conn = NoConn

Init ==
    /\ AuxIdle
    /\ ready = "pending"
    /\ store = EmptyStore
    /\ txs = <<>>
    /\ ops = <<>>
    /\ evt = NoEvt
    /\ outer = NoOuter
    /\ cb = NoCb
    /\ imp = NoImp
    /\ pre = EmptyStore

\* nothing is in flight: every call has settled and every transaction has finished
Quiet ==
    /\ \A o \in 1..Len(ops) : Settled(ops[o])
    /\ \A t \in 1..Len(txs) : Finished(txs[t])
    /\ evt.phase = "none"

\* a terminal call on a builder obtained from the client (db.insert(t).values(b).run())
Call(op) ==
    /\ Len(ops) < MaxOps
    /\ ops' = Append(ops, [op EXCEPT !.early = (ready = "pending")])
    /\ UNCHANGED <<ready, store, txs, evt, outer, cb, imp, auxvars>>

----------------------------------------------------------------------------
(* Standalone inserts, one call after the other *)

InsertRaw == {[email |-> StrA], [email |-> StrB], [email |-> 1]}

Batches(raws) == UNION {[1..n -> raws] : n \in 0..MaxBatch}

InsertCall ==
    /\ Quiet
    /\ \E batch \in Batches(InsertRaw) :
          Call(NewOp("insert", "users", FALSE, batch, NoRec, "all"))
    /\ pre' = store

NextInsert ==
    \/ ReadyResolve
    \/ InsertCall
    \/ \E o \in 1..MaxOps : InsertRun(o)
    \/ \E t \in 1..MaxTxs : InsertAddSuccess(t)
    \/ \E t \in 1..MaxTxs : WriteError(t)
    \/ ErrorBubble
    \/ \E t \in 1..MaxTxs : RequestAborted(t)
    \/ \E t \in 1..MaxTxs : AbortEvent(t)
    \/ \E t \in 1..MaxTxs : TxComplete(t)
    \/ \E t \in 1..MaxTxs : InsertGetSuccess(t)

SpecInsert == Init /\ [][NextInsert]_vars

HasInvalid(o) == FirstInvalid(ops[o].tbl, ops[o].batch, 1) <= Len(ops[o].batch)

\* C2: an insert batch one record of which violates a uniqueness constraint of the host
\* engine: run() rejects, its transaction never commits, and the table holds the records
\* it held before the call, wherever the violating record stands in the batch.
C2_BatchAtomicOnConstraint ==
    \A o \in 1..Len(ops) :
        (ops[o].kind = "insert" /\ ops[o].tx # 0 /\ txs[ops[o].tx].violated)
        => /\ ops[o].st = "rejected"
           /\ txs[ops[o].tx].state # "committed"
           /\ (o = Len(ops) => store.rows = pre.rows)

\* a batch of two whose first record was written, whose second violated the unique
\* index, on a table that held a record before: aborted and rolled back
C2_Witness ==
    \E o \in 1..Len(ops) :
        /\ ops[o].kind = "insert" /\ ops[o].tx # 0
        /\ Len(ops[o].batch) = 2 /\ ops[o].completed = 1
        /\ txs[ops[o].tx].violated /\ txs[ops[o].tx].state = "aborted"
        /\ ops[o].st = "rejected" /\ ops[o].err = "ConstraintError"
        /\ pre.rows["users"] # {} /\ store.rows = pre.rows

\* C7: a standalone insert batch with a record that fails validation, at any position:
\* run() rejects, no write request of the batch is issued, the table is unchanged.
C7_NoWriteOnInvalidBatch ==
    \A o \in 1..Len(ops) :
        (ops[o].kind = "insert" /\ ~ops[o].scoped /\ ops[o].st # "waitReady" /\ HasInvalid(o))
        => /\ ops[o].st = "rejected"
           /\ ops[o].issued = 0
           /\ (o = Len(ops) => store.rows = pre.rows)

----------------------------------------------------------------------------
(* Standalone inserts, updates and deletes on one table, one call after the other *)

PostsRaw == {[title |-> StrA], [id |-> StrA, title |-> StrA]}

\* the last patch names the primary-key column
UpdatePatches == {[title |-> StrB], [title |-> 1], [id |-> 3]}

Preds == {"all", "idIs1", "idIs3"}

UpdateCall ==
    /\ Quiet
    /\ \E batch \in Batches(PostsRaw), patch \in UpdatePatches, pred \in Preds,
          kind \in {"insert", "update", "delete"} :
          /\ kind # "insert" => batch = <<>>
          /\ kind # "update" => patch = CHOOSE q \in UpdatePatches : TRUE
          /\ kind = "insert" => pred = "all"
          /\ Call(NewOp(kind, "posts", FALSE, batch,
                        IF kind = "update" THEN patch ELSE NoRec, pred))
    /\ pre' = store

NextUpdate ==
    \/ ReadyResolve
    \/ UpdateCall
    \/ \E o \in 1..MaxOps : InsertRun(o)
    \/ \E o \in 1..MaxOps : ScanRun(o)
    \/ \E t \in 1..MaxTxs : InsertAddSuccess(t)
    \/ \E t \in 1..MaxTxs : InsertGetSuccess(t)
    \/ \E t \in 1..MaxTxs : ScanSuccess(t)
    \/ \E t \in 1..MaxTxs : RowWriteSuccess(t)
    \/ \E t \in 1..MaxTxs : WriteError(t)
    \/ ErrorBubble
    \/ \E t \in 1..MaxTxs : RequestAborted(t)
    \/ \E t \in 1..MaxTxs : AbortEvent(t)
    \/ \E t \in 1..MaxTxs : TxComplete(t)

SpecUpdate == Init /\ [][NextUpdate]_vars

\* a row the update matches whose merged record validateAndPrepareData rejects
HasInvalidRow(o) ==
    \E r \in pre.rows[ops[o].tbl] :
        Matches(ops[o].pred, r) /\ ~Valid(ops[o].tbl, UpdatedRow(ops[o].tbl, r, ops[o].patch), TRUE)

\* C8: a standalone update in which the merged record of a matching row fails
\* validation: run() rejects and no row of the table is modified.
C8_NoWriteOnInvalidUpdate ==
    \A o \in 1..Len(ops) :
        (o = Len(ops) /\ ops[o].kind = "update" /\ ~ops[o].scoped /\ HasInvalidRow(o))
        => /\ store.rows = pre.rows
           /\ (Quiet => ops[o].st = "rejected")

\* the rows of the table the latest call's predicate keeps, as the table was at the call
MatchedRows(o) == {r \in pre.rows[ops[o].tbl] : Matches(ops[o].pred, r)}

\* C26: an update whose predicate matches no row resolves with 0 and leaves the table
\* unchanged; in general run() resolves with the number of rows matched and written back.
C26_UpdateCount ==
    \A o \in 1..Len(ops) :
        (o = Len(ops) /\ ops[o].kind = "update") =>
            LET t == ops[o].tbl
                new(r) == Prepared(t, UpdatedRow(t, r, ops[o].patch), TRUE)
                allValid == \A r \in MatchedRows(o) : Valid(t, UpdatedRow(t, r, ops[o].patch), TRUE)
            IN  /\ MatchedRows(o) = {} =>
                      /\ store.rows = pre.rows
                      /\ ops[o].st \in {"waitReady", "running", "fulfilled"}
                      /\ ops[o].count = 0
                      /\ Quiet => ops[o].st = "fulfilled"
                /\ ops[o].st = "fulfilled" =>
                      /\ ops[o].count = Cardinality(MatchedRows(o))
                      /\ ops[o].issued = ops[o].count
                      /\ (Quiet /\ KeyPath(t) \notin DOMAIN ops[o].patch) =>
                            store.rows[t] = (pre.rows[t] \ MatchedRows(o))
                                            \cup {new(r) : r \in MatchedRows(o)}
                /\ (allValid /\ Quiet) => ops[o].st = "fulfilled"

\* the primary-key values present in a table
KeysOf(w, t) == {r[KeyPath(t)] : r \in w.rows[t]}

\* C37: update().run() never changes the set of primary-key values present in the
\* table, whatever patch it accepted, including one that names the primary-key column.
C37_UpdateKeepsKeys ==
    \A o \in 1..Len(ops) :
        (o = Len(ops) /\ ops[o].kind = "update" /\ ops[o].st = "fulfilled" /\ Quiet)
            => KeysOf(store, ops[o].tbl) = KeysOf(pre, ops[o].tbl)

\* C27: delete().where(p).run() removes exactly the rows satisfying p (every row without
\* a predicate), each by its primary key, leaves the others unchanged and resolves with
\* the number of rows removed.
C27_DeleteRemovesMatched ==
    \A o \in 1..Len(ops) :
        (o = Len(ops) /\ ops[o].kind = "delete") =>
            LET t == ops[o].tbl
                left == pre.rows[t] \ MatchedRows(o)
            IN  /\ ops[o].st \in {"waitReady", "running", "fulfilled"}
                /\ ops[o].pred = "all" => left = {}
                /\ store.rows[t] \in {pre.rows[t], left}
                /\ \A x \in 1..Len(txs) : \A i \in 1..Len(txs[x].queue) :
                      LET q == txs[x].queue[i]
                      IN  (q.owner = o /\ q.kind # "getAll") =>
                              /\ q.kind = "delete"
                              /\ q.key \in {r[KeyPath(t)] : r \in MatchedRows(o)}
                /\ ops[o].st = "fulfilled" =>
                      /\ ops[o].count = Cardinality(MatchedRows(o))
                      /\ ops[o].issued = ops[o].count
                      /\ txs[ops[o].tx].state # "aborted"
                      /\ Work(ops[o].tx).rows[t] = left
                /\ Quiet => (ops[o].st = "fulfilled" /\ store.rows[t] = left)

C27_Witness ==
    /\ Len(ops) = 2 /\ ops[2].kind = "delete" /\ ops[2].pred = "idIs1"
    /\ ops[2].st = "fulfilled" /\ ops[2].count = 1
    /\ Cardinality(pre.rows["posts"]) = 2
    /\ Cardinality(store.rows["posts"]) = 1
    /\ Quiet

C26_Witness ==
    /\ Len(ops) = 2 /\ ops[2].kind = "update" /\ ops[2].pred = "idIs3"
    /\ ops[2].st = "fulfilled" /\ ops[2].count = 0
    /\ Cardinality(pre.rows["posts"]) = 2
    /\ Quiet

\* an update of one row out of two
C26_WitnessSome ==
    /\ Len(ops) = 2 /\ ops[2].kind = "update" /\ ops[2].pred = "idIs1"
    /\ ops[2].st = "fulfilled" /\ ops[2].count = 1
    /\ Cardinality(pre.rows["posts"]) = 2
    /\ store.rows # pre.rows
    /\ Quiet

----------------------------------------------------------------------------
(* Terminal calls of every builder, made at any time, also before the connection
   is ready and while other calls are in flight *)

Methods == {"findAll", "findFirst", "findByPk", "findByIndex", "count", "exists"}

ReadyBatches == {<<[email |-> StrA]>>, <<[email |-> StrA], [email |-> StrB]>>}

ReadyCall ==
    /\ \E kind \in {"insert", "update", "delete", "select"},
          batch \in ReadyBatches \cup {<<>>}, m \in Methods \cup {"run"} :
          /\ (kind = "insert") = (batch # <<>>)
          /\ (kind = "select") = (m # "run")
          /\ Call([NewOp(kind, "users", FALSE, batch,
                         IF kind = "update" THEN [email |-> StrB] ELSE NoRec, "all")
                    EXCEPT !.method = m])
    /\ pre' = pre

NextReady ==
    \/ ReadyResolve
    \/ ReadyReject
    \/ ReadyCall
    \/ \E o \in 1..MaxOps : ReadyFailed(o)
    \/ \E o \in 1..MaxOps : InsertRun(o)
    \/ \E o \in 1..MaxOps : ScanRun(o)
    \/ \E o \in 1..MaxOps : SelectRun(o)
    \/ \E t \in 1..MaxTxs : InsertAddSuccess(t)
    \/ \E t \in 1..MaxTxs : InsertGetSuccess(t)
    \/ \E t \in 1..MaxTxs : ScanSuccess(t)
    \/ \E t \in 1..MaxTxs : RowWriteSuccess(t)
    \/ \E t \in 1..MaxTxs : SelectSuccess(t)
    \/ \E t \in 1..MaxTxs : WriteError(t)
    \/ ErrorBubble
    \/ \E t \in 1..MaxTxs : RequestAborted(t)
    \/ \E t \in 1..MaxTxs : AbortEvent(t)
    \/ \E t \in 1..MaxTxs : TxComplete(t)

SpecReady == Init /\ [][NextReady]_vars

\* C10: until the readiness signal has resolved no terminal method of a builder has
\* opened a transaction or issued a request; any number of calls wait on the signal.
C10_NothingBeforeReady ==
    ready # "resolved" =>
        /\ txs = <<>>
        /\ \A o \in 1..Len(ops) : ops[o].tx = 0 /\ ops[o].issued = 0

\* two calls made while the signal was pending, both at work after it resolved
C10_Witness ==
    /\ ready = "resolved"
    /\ \E o1, o2 \in 1..Len(ops) :
          /\ o1 # o2
          /\ ops[o1].early /\ ops[o2].early
          /\ ops[o1].tx # 0 /\ ops[o2].tx # 0
          /\ ops[o1].kind = "select" /\ ops[o2].kind = "insert"

----------------------------------------------------------------------------
(* Locality.transaction(tables, callback) *)

\* transaction(): up to  await this.#readyPromise
TransactionCall ==
    /\ outer.st = "none"
    /\ outer' = [outer EXCEPT !.st = "waitReady"]
    /\ \E a \in BOOLEAN : cb' = [cb EXCEPT !.isAsync = a]
    /\ pre' = store
    /\ UNCHANGED <<ready, store, txs, ops, evt, imp, auxvars>>

\* db.transaction(tables, 'readwrite'), the three handlers, then callback(txContext)
TransactionStart ==
    /\ outer.st = "waitReady"
    /\ ready = "resolved"
    /\ txs' = Append(txs, NewTx("readwrite", Tables, HOuter, HOuter, HOuter))
    /\ outer' = [outer EXCEPT !.st = "pending", !.tx = Len(txs) + 1]
    /\ cb' = [cb EXCEPT !.pc = "running", !.first = TRUE, !.active = Len(txs) + 1]
    /\ UNCHANGED <<ready, store, ops, evt, imp, pre, auxvars>>

\* the callback runs when it has the turn and the executors of the calls it made have run
CbTurn ==
    /\ cb.pc = "running"
    /\ \A o \in 1..Len(ops) : ops[o].st # "waitReady"

\* the terminal calls a callback makes on builders of the scope
ScopeCalls ==
    {NewOp("insert", "users", TRUE, <<[email |-> StrA]>>, NoRec, "all"),
     NewOp("insert", "users", TRUE, <<[email |-> StrA], [email |-> StrA]>>, NoRec, "all"),
     NewOp("insert", "users", TRUE, <<[email |-> StrA], [email |-> 1]>>, NoRec, "all"),
     NewOp("insert", "posts", TRUE, <<[title |-> StrA]>>, NoRec, "all"),
     NewOp("update", "users", TRUE, <<>>, [email |-> StrA], "all"),
     NewOp("delete", "users", TRUE, <<>>, NoRec, "all"),
     [NewOp("select", "users", TRUE, <<>>, NoRec, "all") EXCEPT !.method = "findAll"]}

\* await ctx.insert(t).values(b).run() and the like
CbCallAwait ==
    /\ CbTurn
    /\ cb.calls < MaxOps
    /\ \E op \in ScopeCalls : ops' = Append(ops, op)
    /\ cb' = [cb EXCEPT !.pc = "awaitOp", !.waiting = Len(ops) + 1, !.first = FALSE,
                        !.calls = @ + 1]
    /\ UNCHANGED <<ready, store, txs, evt, outer, imp, pre, auxvars>>

\* ctx.insert(t).values(b).run() without await: the callback goes on
CbCallNoAwait ==
    /\ CbTurn
    /\ cb.calls < MaxOps
    /\ ops' = Append(ops, NewOp("insert", "users", TRUE, <<[email |-> StrA]>>, NoRec, "all"))
    /\ cb' = [cb EXCEPT !.calls = @ + 1]
    /\ UNCHANGED <<ready, store, txs, evt, outer, imp, pre, auxvars>>

\* the awaited call settled: the callback goes on, catching a rejection
CbContinue ==
    /\ cb.pc = "awaitOp"
    /\ Settled(ops[cb.waiting])
    /\ cb' = [cb EXCEPT !.pc = "running",
                        !.caught = @ \/ ops[cb.waiting].st = "rejected"]
    /\ UNCHANGED <<ready, store, txs, ops, evt, outer, imp, pre, auxvars>>

\* await of something that is not a request of the scope (a timer, a fetch)
CbSleep ==
    /\ CbTurn
    /\ ~cb.slept
    /\ cb' = [cb EXCEPT !.pc = "awaitTimer", !.first = FALSE, !.slept = TRUE]
    /\ UNCHANGED <<ready, store, txs, ops, evt, outer, imp, pre, auxvars>>

TimerFires ==
    /\ cb.pc = "awaitTimer"
    /\ TaskTurn
    /\ cb' = [cb EXCEPT !.pc = "running", !.active = 0]
    /\ UNCHANGED <<ready, store, txs, ops, evt, outer, imp, pre, auxvars>>

\* the callback's promise fulfils:  .then(() => {})  leaves the scope to auto-commit
CbReturn ==
    /\ CbTurn
    /\ cb' = [cb EXCEPT !.pc = "returned"]
    /\ UNCHANGED <<ready, store, txs, ops, evt, outer, imp, pre, auxvars>>

\* .catch((error) => { transaction.abort(); reject(error); })
\* abort() throws InvalidStateError on a finished transaction, and reject is not reached
CatchTxs == 
    IF txs[ScopeTx].state = "active"
    THEN [txs EXCEPT ![ScopeTx].state = "aborting"] ELSE txs

CatchOuter(e) ==
    IF txs[ScopeTx].state = "active" /\ outer.st = "pending"
    THEN [outer EXCEPT !.st = "rejected", !.err = e] ELSE outer

\* the callback throws its own error: out of a plain function before it returned a
\* promise (the executor of the returned promise throws), else as a rejection
CbThrow ==
    /\ CbTurn
    /\ cb' = [cb EXCEPT !.pc = "threw", !.err = "CallbackError"]
    /\ IF cb.first /\ ~cb.isAsync
       THEN /\ outer' = IF outer.st = "pending"
                        THEN [outer EXCEPT !.st = "rejected", !.err = "CallbackError"]
                        ELSE outer
            /\ txs' = txs
       ELSE /\ outer' = CatchOuter("CallbackError")
            /\ txs' = CatchTxs
    /\ UNCHANGED <<ready, store, ops, evt, imp, pre, auxvars>>

\* the callback lets the rejection of the call it awaited through
CbPropagate ==
    /\ cb.pc = "awaitOp"
    /\ ops[cb.waiting].st = "rejected"
    /\ cb' = [cb EXCEPT !.pc = "threw", !.err = ops[cb.waiting].err]
    /\ outer' = CatchOuter(ops[cb.waiting].err)
    /\ txs' = CatchTxs
    /\ UNCHANGED <<ready, store, ops, evt, imp, pre, auxvars>>

SeededStore ==
    [rows |-> [t \in Tables |-> IF t = "users" THEN {[id |-> 1, email |-> StrB]} ELSE {}],
     gen |-> [t \in Tables |-> IF t = "users" THEN 2 ELSE 1]]

InitTx ==
    /\ AuxIdle
    /\ ready = "pending"
    /\ store \in {EmptyStore, SeededStore}
    /\ txs = <<>>
    /\ ops = <<>>
    /\ evt = NoEvt
    /\ outer = NoOuter
    /\ cb = NoCb
    /\ imp = NoImp
    /\ pre = store

NextTx ==
    \/ ReadyResolve
    \/ TransactionCall
    \/ TransactionStart
    \/ CbCallAwait
    \/ CbCallNoAwait
    \/ CbContinue
    \/ CbPropagate
    \/ CbSleep
    \/ TimerFires
    \/ CbReturn
    \/ CbThrow
    \/ \E o \in 1..MaxOps : InsertRun(o)
    \/ \E o \in 1..MaxOps : ScanRun(o)
    \/ \E o \in 1..MaxOps : SelectRun(o)
    \/ \E t \in 1..MaxTxs : InsertAddSuccess(t)
    \/ \E t \in 1..MaxTxs : InsertGetSuccess(t)
    \/ \E t \in 1..MaxTxs : ScanSuccess(t)
    \/ \E t \in 1..MaxTxs : RowWriteSuccess(t)
    \/ \E t \in 1..MaxTxs : SelectSuccess(t)
    \/ \E t \in 1..MaxTxs : WriteError(t)
    \/ ErrorBubble
    \/ \E t \in 1..MaxTxs : RequestAborted(t)
    \/ \E t \in 1..MaxTxs : AbortEvent(t)
    \/ \E t \in 1..MaxTxs : TxComplete(t)

SpecTx == InitTx /\ [][NextTx]_vars

\* the scope of the transaction() call has finished and nothing of it is left to run
ScopeDone ==
    /\ outer.tx # 0
    /\ Finished(txs[outer.tx])
    /\ cb.pc \in {"returned", "threw"}
    /\ evt.phase = "none"
    /\ \A o \in 1..Len(ops) : Settled(ops[o])

\* C1: when the callback fails (it throws, or the promise it returned rejects), the
\* shared scope is aborted, the promise of transaction() is rejected with the
\* callback's own error, and once the scope has finished every table holds the
\* records it held before the call.
C1_CallbackFailureRollsBack ==
    cb.pc = "threw" =>
        /\ outer.st = "rejected" /\ outer.err = cb.err
        /\ txs[outer.tx].state \in {"aborting", "aborted"}
        /\ ScopeDone => store.rows = pre.rows

\* C3: when the host engine has aborted the shared scope and the callback has
\* finished, the promise of transaction() is rejected, also when the callback caught
\* the error of the failed call and returned normally.
C3_AbortAlwaysRejects ==
    (ScopeDone /\ txs[outer.tx].state = "aborted") => outer.st = "rejected"

\* C4: the promise of transaction() is fulfilled only when the callback's promise
\* has fulfilled and the host engine has committed the scope.
C4_FulfilledOnlyAfterCallbackAndCommit ==
    outer.st = "fulfilled" =>
        /\ cb.pc = "returned"
        /\ txs[outer.tx].state = "committed"

\* C5: once the scope has finished, the promise of transaction() is settled,
\* fulfilled exactly when the scope was committed and rejected exactly when it was
\* aborted.
C5_OutcomeMatchesScope ==
    ScopeDone =>
        /\ outer.st \in {"fulfilled", "rejected"}
        /\ outer.st = "fulfilled" <=> txs[outer.tx].state = "committed"
        /\ outer.st = "rejected" <=> txs[outer.tx].state = "aborted"

\* C6: every request of a builder of the scope is issued on the one shared
\* transaction, and no terminal call of such a builder opens another transaction.
C6_OneSharedTransaction ==
    /\ Len(txs) = (IF outer.st \in {"none", "waitReady"} THEN 0 ELSE 1)
    /\ \A o \in 1..Len(ops) : ops[o].scoped => ops[o].tx \in {0, ScopeTx}
    /\ \A t \in 1..Len(txs) : \A i \in 1..Len(txs[t].queue) :
           ops[txs[t].queue[i].owner].scoped => t = ScopeTx

C6_Witness ==
    /\ outer.st = "fulfilled"
    /\ Len(ops) = 2
    /\ ops[1].kind = "insert" /\ ops[1].st = "fulfilled" /\ ops[1].tx = ScopeTx
    /\ ops[1].result # {}
    /\ ops[2].kind = "select" /\ ops[2].st = "fulfilled" /\ ops[2].tx = ScopeTx

----------------------------------------------------------------------------
(* Locality.import(data, options) *)

\* rows.map((row) => new Promise(...)): a request for every row validateAndPrepareData
\* accepts; the executor of a row it throws on rejects that row's promise only
ImportWrites(t, rows, mode) ==
    LET ok == SelectSeq(rows, LAMBDA r : Valid(t, r, FALSE))
    IN  [i \in 1..Len(ok) |->
            Request(HImport, IF mode = "upsert" THEN "put" ELSE "add", t,
                    Prepared(t, ok[i], FALSE), Undef)]

ImportInvalid(t, rows) == \E i \in 1..Len(rows) : ~Valid(t, rows[i], FALSE)

\* an import that never clears
ImportTableBug(t, rows, mode) == ImportWrites(t, rows, mode)

\* the requests of one table up to its first await
ImportTable(t, rows, mode) ==
    IF mode = "replace" THEN <<Request(HImport, "clear", t, NoRec, Undef)>>
    ELSE ImportWrites(t, rows, mode)

RECURSIVE ImportAll(_, _, _)
ImportAll(ts, data, mode) ==
    IF ts = {} THEN <<>>
    ELSE LET t == CHOOSE u \in ts : \A v \in ts : u = "users" \/ v # "users"
         IN  ImportTable(t, data[t], mode) \o ImportAll(ts \ {t}, data, mode)

\* a catch that rejects without aborting
ImportCatchTxsBug(ts, t) == ts

\* .catch((err) => { transaction.abort(); reject(err); })
ImportCatchTxs(ts, t) == [ts EXCEPT ![t].state = IF @ = "active" THEN "aborting" ELSE @]

ImportCatchImp(i, ts, t, e) ==
    IF i.st = "pending" /\ ~Finished(ts[t])
    THEN [i EXCEPT !.st = "rejected", !.err = e, !.failed = TRUE]
    ELSE [i EXCEPT !.failed = TRUE]

\* Promise.all(tablePromises).then(() => resolve()): every request has succeeded
ImportResolved(i, queue) ==
    IF i.st = "pending" /\ queue = <<>> THEN [i EXCEPT !.st = "fulfilled"] ELSE i

ImportRows == 
    [users |-> {[id |-> 1, email |-> StrA], [id |-> 2, email |-> StrA],
                [id |-> 2, email |-> StrB], [id |-> 2, email |-> 1]},
     posts |-> {[id |-> 1, title |-> StrA], [id |-> 1, title |-> 1]}]

ImportData ==
    UNION {[ts -> UNION {[1..n -> ImportRows["users"] \cup ImportRows["posts"]] :
                           n \in 0..MaxBatch}] : ts \in SUBSET Tables}

\* import(): up to  await this.#readyPromise
ImportCall ==
    /\ imp.st = "none"
    /\ \E mode \in {"merge", "replace", "upsert"} : \E data \in ImportData :
          /\ \A t \in DOMAIN data : \A i \in 1..Len(data[t]) : data[t][i] \in ImportRows[t]
          /\ "posts" \in DOMAIN data => Len(data["posts"]) <= 1
          /\ imp' = [imp EXCEPT !.st = "waitReady", !.mode = mode, !.data = data]
    /\ pre' = store
    /\ UNCHANGED <<ready, store, txs, ops, evt, outer, cb, auxvars>>

\* import(): the transaction, its handlers, and every table up to its first await
ImportStart ==
    /\ imp.st = "waitReady"
    /\ ready = "resolved"
    /\ LET ts == DOMAIN imp.data
           id == Len(txs) + 1
           queue == ImportAll(ts, imp.data, imp.mode)
           bad == imp.mode # "replace" /\ \E t \in ts : ImportInvalid(t, imp.data[t])
           opened == Append(txs, [NewTx("readwrite", ts, HNone, HImport, HImport)
                                     EXCEPT !.queue = queue])
           begun == [imp EXCEPT !.st = "pending", !.tx = id]
       IN  IF ts = {}
           THEN /\ imp' = [imp EXCEPT !.st = "fulfilled"]
                /\ txs' = txs
           ELSE IF bad
           THEN /\ imp' = ImportCatchImp(begun, opened, id, "ValidationError")
                /\ txs' = ImportCatchTxs(opened, id)
           ELSE /\ imp' = ImportResolved(begun, queue)
                /\ txs' = opened
    /\ UNCHANGED <<ready, store, ops, evt, outer, cb, pre, auxvars>>

\* a runnable transaction whose first pending request import() issued
ImportHead(t, kinds) ==
    /\ t \in 1..Len(txs)
    /\ TaskTurn
    /\ txs[t].state = "active"
    /\ txs[t].queue # <<>>
    /\ CanRun(t)
    /\ Head(txs[t].queue).owner = HImport
    /\ Head(txs[t].queue).kind \in kinds

\* clearRequest.onsuccess, then the rows of that table
ImportClearSuccess(t) ==
    /\ ImportHead(t, {"clear"})
    /\ LET r == Head(txs[t].queue)
           rows == imp.data[r.tbl]
           queue == Tail(txs[t].queue) \o ImportWrites(r.tbl, rows, imp.mode)
           cleared == [txs EXCEPT ![t].started = TRUE,
                                  ![t].work = AfterClear(Work(t), r.tbl),
                                  ![t].queue = queue]
       IN  IF ImportInvalid(r.tbl, rows)
           THEN /\ imp' = ImportCatchImp(imp, cleared, t, "ValidationError")
                /\ txs' = ImportCatchTxs(cleared, t)
           ELSE /\ imp' = ImportResolved(imp, queue)
                /\ txs' = cleared
    /\ UNCHANGED <<ready, store, ops, evt, outer, cb, pre, auxvars>>

\* request.onsuccess of store.add / store.put
ImportWriteSuccess(t) ==
    /\ ImportHead(t, {"add", "put"})
    /\ LET r == Head(txs[t].queue)
           w == Work(t)
       IN  /\ ~(IF r.kind = "add" THEN AddFails(w, r.tbl, r.rec) ELSE PutFails(w, r.tbl, r.rec))
           /\ txs' = [txs EXCEPT ![t].started = TRUE, ![t].work = AfterPut(w, r.tbl, r.rec),
                                 ![t].queue = Tail(@)]
           /\ imp' = ImportResolved(imp, Tail(txs[t].queue))
    /\ UNCHANGED <<ready, store, ops, evt, outer, cb, pre, auxvars>>

\* request.onerror = () => rej(request.error), then the catch; the event then bubbles
ImportWriteError(t) ==
    /\ ImportHead(t, {"add", "put"})
    /\ LET r == Head(txs[t].queue)
           w == Work(t)
           failed == [txs EXCEPT ![t].started = TRUE, ![t].work = w, ![t].queue = Tail(@),
                                 ![t].violated = TRUE]
       IN  /\ IF r.kind = "add" THEN AddFails(w, r.tbl, r.rec) ELSE PutFails(w, r.tbl, r.rec)
           /\ imp' = ImportCatchImp(imp, failed, t, "ConstraintError")
           /\ txs' = ImportCatchTxs(failed, t)
           /\ evt' = [phase |-> "bubble", tx |-> t, err |-> "ConstraintError",
                      dflt |-> ~PreventsDefault(r.owner)]
    /\ UNCHANGED <<ready, store, ops, outer, cb, pre, auxvars>>

NextImport ==
    \/ ReadyResolve
    \/ ImportCall
    \/ ImportStart
    \/ \E t \in 1..MaxTxs : ImportClearSuccess(t)
    \/ \E t \in 1..MaxTxs : ImportWriteSuccess(t)
    \/ \E t \in 1..MaxTxs : ImportWriteError(t)
    \/ ErrorBubble
    \/ \E t \in 1..MaxTxs : RequestAborted(t)
    \/ \E t \in 1..MaxTxs : AbortEvent(t)
    \/ \E t \in 1..MaxTxs : TxComplete(t)

SpecImport == InitTx /\ [][NextImport]_vars

\* C9: when a record of an import fails validation or its write violates a
\* constraint, import() rejects, the transaction is never committed, and every
\* table holds the records it held before the import.
C9_FailedImportChangesNothing ==
    imp.failed =>
        /\ imp.st = "rejected"
        /\ txs[imp.tx].state \in {"aborting", "aborted"}
        /\ store = pre

C9_Witness ==
    /\ imp.failed
    /\ imp.st = "rejected"
    /\ imp.mode = "replace"
    /\ txs[imp.tx].state = "aborted"
    /\ txs[imp.tx].work.rows["users"] # pre.rows["users"]
    /\ pre.rows["users"] # {}
    /\ store = pre

----------------------------------------------------------------------------
(* Locality.clearTable(table) and Locality.clearAll() *)

\* a clearTable that waits for the connection and then fails as before
ClearTableCalledBug(op, id) ==
    IF ready = "resolved"
    THEN [op EXCEPT !.st = "running", !.tx = id, !.issued = 1, !.total = 1]
    ELSE [op EXCEPT !.early = TRUE]

\* the promise clearTable returns, after its executor has run: the executor calls
\* this.#db.transaction(...) at once, and this.#db is undefined until the open
\* request has succeeded
ClearTableCalled(op, id) ==
    IF ready = "resolved"
    THEN [op EXCEPT !.st = "running", !.tx = id, !.issued = 1, !.total = 1]
    ELSE [op EXCEPT !.st = "rejected", !.err = "TypeError", !.early = TRUE]

\* clearTable(table): the whole call
ClearTableCall ==
    /\ Len(ops) < MaxOps
    /\ Len(txs) < MaxTxs
    /\ \E t \in Tables :
          LET o == Len(ops) + 1
              id == Len(txs) + 1
              op == ClearTableCalled(NewOp("clearTable", t, FALSE, <<>>, NoRec, "all"), id)
          IN  /\ ops' = Append(ops, op)
              /\ txs' = IF op.st = "running"
                        THEN Append(txs, [NewTx("readwrite", {t}, HNone, o, HNone) EXCEPT
                                             !.queue = <<Request(o, "clear", t, NoRec, Undef)>>])
                        ELSE txs
    /\ pre' = store
    /\ UNCHANGED <<ready, store, evt, outer, cb, imp, auxvars>>

\* clearAll(): up to  await this.#readyPromise
ClearAllCall ==
    /\ Call(NewOp("clearAll", "users", FALSE, <<>>, NoRec, "all"))
    /\ pre' = store

\* tables.map((table) => ... store.clear() ...): one request per table of the schema
RECURSIVE ClearRequests(_, _)
ClearRequests(o, ts) ==
    IF ts = {} THEN <<>>
    ELSE LET t == CHOOSE u \in ts : \A v \in ts : u = "users" \/ v # "users"
         IN  <<Request(o, "clear", t, NoRec, Undef)>> \o ClearRequests(o, ts \ {t})

\* clearAll() after the await: the transaction over every table, and the requests
ClearAllRun(o) ==
    /\ CanStart(o)
    /\ ops[o].kind = "clearAll"
    /\ ops' = [ops EXCEPT ![o].st = "running", ![o].tx = Len(txs) + 1,
                          ![o].issued = Cardinality(Tables), ![o].total = Cardinality(Tables)]
    /\ txs' = Append(txs, [NewTx("readwrite", Tables, HNone, o, o) EXCEPT
                              !.queue = ClearRequests(o, Tables)])
    /\ UNCHANGED <<ready, store, evt, outer, cb, imp, pre, auxvars>>

\* clearRequest.onsuccess = () => resolve() / request.onsuccess = () => res(), and
\* Promise.all(clearPromises).then(() => resolve()) after the last one
ClearSuccess(t) ==
    /\ t \in 1..Len(txs)
    /\ TaskTurn
    /\ txs[t].state = "active"
    /\ txs[t].queue # <<>>
    /\ CanRun(t)
    /\ Head(txs[t].queue).kind = "clear"
    /\ Head(txs[t].queue).owner >= 1
    /\ LET r == Head(txs[t].queue)
           o == r.owner
       IN  /\ ops' = [ops EXCEPT
                         ![o].count = @ + 1,
                         ![o].st = IF @ = "running" /\ ops[o].count + 1 = ops[o].total
                                   THEN "fulfilled" ELSE @]
           /\ txs' = [txs EXCEPT ![t].started = TRUE, ![t].work = AfterClear(Work(t), r.tbl),
                                 ![t].queue = Tail(@)]
    /\ cb' = CbActive(t)
    /\ UNCHANGED <<ready, store, evt, outer, imp, pre, auxvars>>

----------------------------------------------------------------------------
(* Client-level operations called at any time, also before the connection is ready *)

NextGate ==
    \/ ReadyResolve
    \/ ClearTableCall
    \/ ClearAllCall
    \/ \E o \in 1..MaxOps : ClearAllRun(o)
    \/ \E t \in 1..MaxTxs : ClearSuccess(t)
    \/ ImportCall
    \/ ImportStart
    \/ \E t \in 1..MaxTxs : ImportClearSuccess(t)
    \/ \E t \in 1..MaxTxs : ImportWriteSuccess(t)
    \/ \E t \in 1..MaxTxs : ImportWriteError(t)
    \/ ErrorBubble
    \/ \E t \in 1..MaxTxs : RequestAborted(t)
    \/ \E t \in 1..MaxTxs : AbortEvent(t)
    \/ \E t \in 1..MaxTxs : TxComplete(t)

SpecGate == InitTx /\ [][NextGate]_vars

\* C32: clearTable, clearAll and import first await the readiness gate: while the
\* connection is not ready each call made so far is still waiting, and none has opened
\* a transaction or touched the connection.
C32_ClientOpsAwaitGate ==
    ready # "resolved" =>
        /\ txs = <<>>
        /\ imp.st \in {"none", "waitReady"}
        /\ \A o \in 1..Len(ops) :
              ops[o].st = "waitReady" /\ ops[o].tx = 0 /\ ops[o].issued = 0

----------------------------------------------------------------------------
(* Standalone writes (update, delete, clearTable, clearAll, import) and reads of the
   table users, called at any time *)

WriteCall ==
    /\ \E kind \in {"update", "delete", "select"} :
          Call([NewOp(kind, "users", FALSE, <<>>,
                      IF kind = "update" THEN [email |-> StrA] ELSE NoRec, "all")
                  EXCEPT !.method = IF kind = "select" THEN "findAll" ELSE "run"])
    /\ pre' = pre

NextWrites ==
    \/ ReadyResolve
    \/ WriteCall
    \/ ClearTableCall
    \/ ClearAllCall
    \/ ImportCall /\ DOMAIN imp'.data = {"users"} /\ Len(imp'.data["users"]) <= 1
    \/ ImportStart
    \/ \E o \in 1..MaxOps : ClearAllRun(o)
    \/ \E o \in 1..MaxOps : ScanRun(o)
    \/ \E o \in 1..MaxOps : SelectRun(o)
    \/ \E t \in 1..MaxTxs : ClearSuccess(t)
    \/ \E t \in 1..MaxTxs : ImportClearSuccess(t)
    \/ \E t \in 1..MaxTxs : ImportWriteSuccess(t)
    \/ \E t \in 1..MaxTxs : ImportWriteError(t)
    \/ \E t \in 1..MaxTxs : ScanSuccess(t)
    \/ \E t \in 1..MaxTxs : RowWriteSuccess(t)
    \/ \E t \in 1..MaxTxs : SelectSuccess(t)
    \/ ErrorBubble
    \/ \E t \in 1..MaxTxs : AbortEvent(t)
    \/ \E t \in 1..MaxTxs : TxComplete(t)

SpecWrites == InitTx /\ [][NextWrites]_vars

\* the transaction of a standalone write whose promise has fulfilled
FulfilledWriteTxs ==
    {ops[o].tx : o \in {i \in 1..Len(ops) :
                          /\ ops[i].kind \in {"update", "delete", "clearTable", "clearAll"}
                          /\ ops[i].st = "fulfilled"}}
    \cup (IF imp.st = "fulfilled" /\ imp.tx # 0 THEN {imp.tx} ELSE {})

----------------------------------------------------------------------------
(* new Locality(config): #buildStoresConfig, then openDBWithStores *)

MaxTables == 2   \* tables of a schema handed to the constructor
MaxCols == 2     \* columns of one of those tables

\* a table is the list of its columns' [IsPrimaryKey] flags; its name is its position
\* new Column(type): no marker is set
NewColumn == [pk |-> FALSE, auto |-> FALSE, indexed |-> FALSE, unique |-> FALSE]

SchemaConfigs ==
    LET tables == UNION {[1..n -> {NewColumn, [NewColumn EXCEPT !.pk = TRUE]}] : n \in 1..MaxCols}
    IN  UNION {[1..n -> tables] : n \in 1..MaxTables}

\* columnEntries.filter(([_, col]) => col[IsPrimaryKey])
PkEntries(cols) == {c \in 1..Len(cols) : cols[c].pk}

\* an index list that does not skip the primary key
IndexesBug(cols) ==
    LET names == SelectSeq([c \in 1..Len(cols) |-> c], LAMBDA c : cols[c].indexed)
    IN  [i \in 1..Len(names) |->
            [name |-> names[i], keyPath |-> names[i], unique |-> cols[names[i]].unique]]

\* the IndexConfig of every column marked with index() or unique() that is not the
\* primary key, in column order (undefined, here the empty list, when there is none)
Indexes(cols) ==
    LET names == SelectSeq([c \in 1..Len(cols) |-> c],
                           LAMBDA c : ~cols[c].pk /\ cols[c].indexed)
    IN  [i \in 1..Len(names) |->
            [name |-> names[i], keyPath |-> names[i], unique |-> cols[names[i]].unique]]

\* a check that only refuses a table without a primary key
SinglePkBug(n) == n >= 1

\* neither pkEntries.length === 0 nor pkEntries.length > 1
SinglePk(n) == n = 1

\* new Locality(config) is called
NewLocality ==
    /\ ctor.st = "none"
    /\ config # NoConfig
    /\ ctor' = [ctor EXCEPT !.st = "building"]
    /\ UNCHANGED <<txvars, config, disk, conn, evalvars>>

\* one table of Object.entries(this.#schema).map(...): throw, or its StoreConfig
BuildStoreConfig ==
    /\ ctor.st = "building"
    /\ ctor.i < Len(config)
    /\ LET t == ctor.i + 1
           pk == PkEntries(config[t])
       IN  ctor' = IF SinglePk(Cardinality(pk))
                   THEN [ctor EXCEPT !.i = t,
                                     !.stores = Append(@,
                                        [name |-> t,
                                         keyPath |-> CHOOSE c \in pk : TRUE,
                                         autoIncrement |-> config[t][CHOOSE c \in pk : TRUE].auto,
                                         indexes |-> Indexes(config[t])])]
                   ELSE [ctor EXCEPT !.st = "threw", !.err = t]
    /\ UNCHANGED <<txvars, config, disk, conn, evalvars>>

\* this.#readyPromise = openDBWithStores(this.#name, store, config.version)
OpenDBWithStores ==
    /\ ctor.st = "building"
    /\ ctor.i = Len(config)
    /\ ctor' = [ctor EXCEPT !.st = "opening", !.opens = @ + 1]
    /\ UNCHANGED <<txvars, config, disk, conn, evalvars>>

\* nothing has been called on the client yet
TxIdle ==
    /\ ready = "pending"
    /\ store = EmptyStore
    /\ txs = <<>>
    /\ ops = <<>>
    /\ evt = NoEvt
    /\ outer = NoOuter
    /\ cb = NoCb
    /\ imp = NoImp
    /\ pre = EmptyStore

InitSchema ==
    /\ TxIdle
    /\ EvalIdle
    /\ config \in SchemaConfigs
    /\ ctor = NoCtor
    /\ disk = NoDisk
    /\ conn = NoConn

NextSchema ==
    \/ NewLocality
    \/ BuildStoreConfig
    \/ OpenDBWithStores

SpecSchema == InitSchema /\ [][NextSchema]_vars

BadTables == {t \in 1..Len(config) : Cardinality(PkEntries(config[t])) # 1}

\* C11: when some table of the schema has no primary-key column or more than one,
\* the constructor throws an error that names such a table (the first one), and it
\* never issues the request that opens the database.
C11_BadSchemaFailsBeforeOpen ==
    BadTables # {} =>
        /\ ctor.opens = 0
        /\ ctor.st \in {"none", "building", "threw"}
        /\ ctor.st = "threw" => ctor.err \in BadTables /\ \A t \in BadTables : ctor.err <= t
        /\ ctor.st = "building" => \A t \in BadTables : ctor.i < t

C11_Witness ==
    /\ ctor.st = "threw"
    /\ ctor.err = 2
    /\ Cardinality(PkEntries(config[2])) = 2
    /\ Len(ctor.stores) = 1
    /\ ctor.opens = 0

----------------------------------------------------------------------------
(* The StoreConfig of one table, for the columns pk(), auto(), index() and unique() give *)

\* the columns the builder methods produce: unique() also marks the column indexed
ColumnKinds ==
    {NewColumn,
     [NewColumn EXCEPT !.pk = TRUE],
     [NewColumn EXCEPT !.pk = TRUE, !.auto = TRUE],
     [NewColumn EXCEPT !.pk = TRUE, !.indexed = TRUE, !.unique = TRUE],
     [NewColumn EXCEPT !.auto = TRUE],
     [NewColumn EXCEPT !.indexed = TRUE],
     [NewColumn EXCEPT !.indexed = TRUE, !.unique = TRUE]}

InitStores ==
    /\ TxIdle
    /\ EvalIdle
    /\ \E n \in 1..MaxCols : \E cols \in [1..n -> ColumnKinds] : config = <<cols>>
    /\ ctor = NoCtor
    /\ disk = NoDisk
    /\ conn = NoConn

SpecStores == InitStores /\ [][NextSchema]_vars

\* C30: the descriptor derived for a table has the name of its single primary-key column
\* as key path, auto-increment exactly when that column asked for it, and as index list
\* exactly the other columns marked indexed or unique, each with its own uniqueness
\* flag; the primary key is never in the index list.
C30_DerivedDescriptor ==
    \A t \in 1..Len(ctor.stores) :
        LET d == ctor.stores[t]
            cols == config[t]
            listed == {d.indexes[i].name : i \in 1..Len(d.indexes)}
        IN  /\ d.name = t
            /\ PkEntries(cols) = {d.keyPath}
            /\ d.autoIncrement = cols[d.keyPath].auto
            /\ listed = {c \in 1..Len(cols) : ~cols[c].pk /\ (cols[c].indexed \/ cols[c].unique)}
            /\ Cardinality(listed) = Len(d.indexes)
            /\ d.keyPath \notin listed
            /\ \A i \in 1..Len(d.indexes) :
                  /\ d.indexes[i].keyPath = d.indexes[i].name
                  /\ d.indexes[i].unique = cols[d.indexes[i].name].unique

C30_Witness ==
    /\ ctor.st = "opening"
    /\ config = <<<<[NewColumn EXCEPT !.pk = TRUE, !.indexed = TRUE, !.unique = TRUE],
                    [NewColumn EXCEPT !.indexed = TRUE]>>>>
    /\ ctor.stores = <<[name |-> 1, keyPath |-> 1, autoIncrement |-> FALSE,
                        indexes |-> <<[name |-> 2, keyPath |-> 2, unique |-> FALSE]>>]>>

----------------------------------------------------------------------------
(* openDBWithStores(name, stores, version): the open request and its upgrade *)

MaxIdx == 3       \* index names; a smaller number sorts first in objectStore.indexNames
MaxVersion == 2   \* versions a database is at before an open request

IdxNames == 1..MaxIdx

\* objectStore.indexNames: the names in sorted order
RECURSIVE IndexNames(_)
IndexNames(names) ==
    IF names = {} THEN <<>>
    ELSE LET first == CHOOSE n \in names : \A k \in names : n <= k
         IN  <<first>> \o IndexNames(names \ {first})

\* for (const index of store.indexes ?? []) if (!indexNames.contains(name)) createIndex(...)
CreateIndexes(names, declared) == names \cup declared

\* for (let i = 0; i < objectStore.indexNames.length; i++): indexNames is read again on
\* every turn, so a deleteIndex moves the names after it one place down
RECURSIVE DeleteIndexes(_, _, _)
DeleteIndexes(names, declared, i) ==
    LET list == IndexNames(names)
    IN  IF i >= Len(list) THEN names
        ELSE IF list[i + 1] \notin declared
        THEN DeleteIndexes(names \ {list[i + 1]}, declared, i + 1)
        ELSE DeleteIndexes(names, declared, i + 1)

\* a check that keeps no store
InSchemaBug(names, s) == FALSE

\* schemaStoreNames.has(existingStore)
InSchema(names, s) == s \in names

\* an object store of the database after the for (const store of stores) turn for it
UpgradeStore(d, s, declared) ==
    LET had == IF s \in DOMAIN d.stores THEN d.stores[s]
               ELSE [indexes |-> {}, rows |-> {}]       \* db.createObjectStore
    IN  [had EXCEPT !.indexes = DeleteIndexes(CreateIndexes(@, declared), declared, 0)]

\* request.onupgradeneeded: the database after the handler, at the new version
Upgraded(d, topo, v) ==
    LET synced == [s \in DOMAIN d.stores \cup DOMAIN topo |->
                      IF s \in DOMAIN topo THEN UpgradeStore(d, s, topo[s])
                      ELSE d.stores[s]]
        kept == {s \in DOMAIN synced : InSchema(DOMAIN topo, s)}
    IN  [version |-> v, stores |-> [s \in kept |-> synced[s]]]

\* window.indexedDB.open(name, version): the version the request asks for
\* (0 is undefined: the current version, or 1 for a database that does not exist)
Requested(d, v) == IF v # 0 THEN v ELSE IF d.version = 0 THEN 1 ELSE d.version

\* StoreConfig[]: the declared stores with the names of their indexes
\* the columns of a table that index() or unique() can be declared on
IndexedCols(t) == IF t = "users" THEN IdxNames ELSE {}

Topologies ==
    UNION {{topo \in [ts -> SUBSET IdxNames] : \A t \in ts : topo[t] \subseteq IndexedCols(t)} :
              ts \in SUBSET Tables \ {{}}}

\* databases an earlier version of the application left behind
Disks ==
    {NoDisk} \cup
    {[version |-> v, stores |-> st] :
        v \in 1..MaxVersion,
        st \in UNION {{f \in [ts -> [indexes : SUBSET IdxNames,
                                     rows : {EmptyStore.rows["users"],
                                             SeededStore.rows["users"]}]] :
                            \A t \in ts : f[t].indexes \subseteq IndexedCols(t)} :
                         ts \in SUBSET Tables}}

OpenRequest(topo, v, drop) ==
    [stores |-> topo, version |-> v, drop |-> drop, st |-> "pending",
     before |-> disk,     \* ghost: the database when the request is served
     called |-> disk,     \* ghost: the database when the operation was called
     after |-> disk,      \* ghost: the database when the request succeeds
     keys |-> {}]         \* ghost: this.#keyPaths when the request has succeeded

\* openDBWithStores is called: the constructor's open request
OpenCall ==
    /\ conn.reqs = <<>>
    /\ conn.done = <<>>
    /\ \E topo \in Topologies : \E v \in 0..(MaxVersion + 1) :
          conn' = [conn EXCEPT !.reqs = <<OpenRequest(topo, v, "none")>>,
                               !.keyPaths = DOMAIN topo, !.schema = topo]
    /\ UNCHANGED <<txvars, config, ctor, disk, evalvars>>

\* the continuation of a dropTable call is waiting to run: the promise it awaited
\* (the open request that was the latest when it was called) has resolved
DropReady ==
    /\ conn.calls # <<>>
    /\ Head(conn.calls).awaits <= Len(conn.done)

\* the continuation of a builder's terminal call is waiting to run: the promise the
\* builder was created with (that of open request ev.gate) has resolved
TerminalReady ==
    /\ ev.st = "awaitsGate"
    /\ ev.gate <= Len(conn.done)

\* the first open request asks for a newer version: onupgradeneeded runs, and the
\* version-change transaction commits
UpgradeNeeded ==
    /\ conn.reqs # <<>>
    /\ ~DropReady
    /\ ~TerminalReady
    /\ LET r == Head(conn.reqs)
           v == Requested(disk, r.version)
       IN  /\ r.st = "pending"
           /\ v > disk.version
           /\ conn.live = 0           \* else the request stays blocked
           /\ disk' = Upgraded(disk, r.stores, v)
           /\ conn' = [conn EXCEPT !.reqs[1].st = "upgraded", !.reqs[1].before = disk]
    /\ UNCHANGED <<txvars, config, ctor, evalvars>>

\* request.onsuccess = () => resolve(request.result), then this.#db = db (and for
\* dropTable: delete keyPaths[table])
OpenSuccess ==
    /\ conn.reqs # <<>>
    /\ ~DropReady
    /\ ~TerminalReady
    /\ LET r == Head(conn.reqs)
       IN  /\ \/ r.st = "upgraded"
              \/ r.st = "pending" /\ Requested(disk, r.version) = disk.version
           /\ conn' = [conn EXCEPT
                          !.reqs = Tail(@),
                          !.db = disk.version,
                          !.cur = TRUE,
                          !.live = @ + 1,
                          !.keyPaths = @ \ {r.drop},
                          !.done = Append(@, [r EXCEPT
                                     !.st = IF @ = "pending" THEN "opened" ELSE @,
                                     !.before = IF r.st = "pending" THEN disk ELSE @,
                                     !.after = disk,
                                     !.keys = conn.keyPaths \ {r.drop}])]
    /\ UNCHANGED <<txvars, config, ctor, disk, evalvars>>

\* request.onerror = () => reject(request.error): the database is at a newer version
OpenError ==
    /\ conn.reqs # <<>>
    /\ LET r == Head(conn.reqs)
       IN  /\ r.st = "pending"
           /\ Requested(disk, r.version) < disk.version
           /\ conn' = [conn EXCEPT !.reqs = Tail(@),
                                   !.done = Append(@, [r EXCEPT !.st = "error"])]
    /\ UNCHANGED <<txvars, config, ctor, disk, evalvars>>

InitUpgrade ==
    /\ TxIdle
    /\ EvalIdle
    /\ config = NoConfig
    /\ ctor = NoCtor
    /\ disk \in Disks
    /\ conn = NoConn

NextUpgrade ==
    \/ OpenCall
    \/ UpgradeNeeded
    \/ OpenSuccess
    \/ OpenError

SpecUpgrade == InitUpgrade /\ [][NextUpgrade]_vars

\* an open request that was served with an upgrade
UpgradeDone(r) == r.st = "upgraded"

\* C12: after an upgrade, every declared object store has exactly the declared index
\* names: the missing ones were created and the stale ones were dropped.
C12_IndexesMatchTopology ==
    \A k \in 1..Len(conn.done) :
        UpgradeDone(conn.done[k]) =>
            \A s \in DOMAIN conn.done[k].stores :
                /\ s \in DOMAIN disk.stores
                /\ disk.stores[s].indexes = conn.done[k].stores[s]

\* C13: an upgrade leaves the records of every object store that existed before it
\* and is still declared as they were, whatever indexes it creates or drops.
C13_UpgradeKeepsRecords ==
    \A k \in 1..Len(conn.done) :
        UpgradeDone(conn.done[k]) =>
            \A s \in DOMAIN conn.done[k].stores \cap DOMAIN conn.done[k].before.stores :
                /\ s \in DOMAIN disk.stores
                /\ disk.stores[s].rows = conn.done[k].before.stores[s].rows

C13_Witness ==
    /\ conn.done # <<>>
    /\ UpgradeDone(conn.done[1])
    /\ "users" \in DOMAIN conn.done[1].stores \cap DOMAIN conn.done[1].before.stores
    /\ conn.done[1].before.stores["users"].rows # {}
    /\ disk.stores["users"].rows = conn.done[1].before.stores["users"].rows
    /\ disk.stores["users"].indexes # conn.done[1].before.stores["users"].indexes
    /\ DOMAIN disk.stores # DOMAIN conn.done[1].before.stores

----------------------------------------------------------------------------
(* onupgradeneeded on one object store whose indexes carry a uniqueness flag *)

\* indexes by name, each with its unique flag: those of an object store, or those of a
\* StoreConfig (unique: index.unique ?? false)
IndexFlags == UNION {[names -> BOOLEAN] : names \in SUBSET IdxNames}

\* the indexes of the store after the for (const store of stores) turn for it:
\* createIndex(name, keyPath, { unique }) runs only for a name the store does not hold,
\* then the stale names are deleted
SyncedIndexes(stored, declared) ==
    LET created == [n \in DOMAIN stored \cup DOMAIN declared |->
                       IF n \in DOMAIN stored THEN stored[n] ELSE declared[n]]
        kept == DeleteIndexes(DOMAIN created, DOMAIN declared, 0)
    IN  [n \in kept |-> created[n]]

InitFlags ==
    /\ TxIdle
    /\ config = NoConfig
    /\ ctor = NoCtor
    /\ disk = NoDisk
    /\ conn = NoConn
    /\ columns = PlainColumns
    /\ \E stored \in IndexFlags : \E declared \in IndexFlags :
          ev = [st |-> "stored", stored |-> stored, declared |-> declared, after |-> stored]

\* the upgrade of the store
SyncIndexes ==
    /\ ev.st = "stored"
    /\ ev' = [ev EXCEPT !.st = "upgraded", !.after = SyncedIndexes(ev.stored, ev.declared)]
    /\ UNCHANGED <<txvars, config, ctor, disk, conn, columns>>

NextFlags == SyncIndexes

SpecFlags == InitFlags /\ [][NextFlags]_vars

\* C40: after an upgrade every declared index exists in storage with the uniqueness
\* flag declared in the new topology, also when it existed before with another flag.
C40_DeclaredFlagsStored ==
    ev.st = "upgraded" =>
        \A n \in DOMAIN ev.declared :
            /\ n \in DOMAIN ev.after
            /\ ev.after[n] = ev.declared[n]

\* the same for the indexes the store did not hold before the upgrade
NewIndexesAsDeclared ==
    ev.st = "upgraded" =>
        \A n \in DOMAIN ev.declared \ DOMAIN ev.stored :
            /\ n \in DOMAIN ev.after
            /\ ev.after[n] = ev.declared[n]

----------------------------------------------------------------------------
(* Locality.dropTable(table) *)

MaxDrops == 2    \* dropTable calls in one behaviour

\* the promise this.#readyPromise holds: that of the k-th open request the client
\* issued after the one of its constructor (0: the constructor's)
readyPromise == Len(conn.reqs) + Len(conn.done)

\* dropTable(table): up to  await this.#readyPromise; the caller calls it when no
\* open request is in flight: after the last call resolved, or next to another call
DropTableCall ==
    /\ Len(conn.calls) + Len(conn.reqs) + Len(conn.done) < MaxDrops
    /\ conn.reqs = <<>>
    /\ ~TerminalReady
    /\ \E t \in DOMAIN conn.schema :
          conn' = [conn EXCEPT !.calls = Append(@,
                      [table |-> t, awaits |-> readyPromise,
                       called |-> disk])]
    /\ UNCHANGED <<txvars, config, ctor, disk, evalvars>>

\* dropTable(table) after the await: nextStores, nextVersion, close, openDBWithStores
DropTableStart ==
    /\ DropReady
    /\ LET c == Head(conn.calls)
           nextStores == [s \in DOMAIN conn.schema \ {c.table} |-> conn.schema[s]]
           nextVersion == conn.db + 1
       IN  conn' = [conn EXCEPT
                       !.calls = Tail(@),
                       !.live = IF conn.cur THEN @ - 1 ELSE @,
                       !.cur = FALSE,
                       !.reqs = Append(@, [OpenRequest(nextStores, nextVersion, c.table)
                                              EXCEPT !.called = c.called])]
    /\ UNCHANGED <<txvars, config, ctor, disk, evalvars>>

\* a client whose constructor's open request has succeeded
InitDrop ==
    /\ TxIdle
    /\ EvalIdle
    /\ config = NoConfig
    /\ ctor = NoCtor
    /\ disk \in Disks
    /\ DOMAIN disk.stores = Tables
    /\ conn = [NoConn EXCEPT !.db = disk.version, !.cur = TRUE, !.live = 1,
                             !.keyPaths = Tables,
                             !.schema = [t \in Tables |-> disk.stores[t].indexes]]

NextDrop ==
    \/ DropTableCall
    \/ DropTableStart
    \/ UpgradeNeeded
    \/ OpenSuccess

SpecDrop == InitDrop /\ [][NextDrop]_vars

\* C14: when dropTable(t) has resolved, the object store t does not exist, the version
\* of the database is one higher than when dropTable was called, #keyPaths has no
\* entry for t, and every other table of the schema still has its object store with
\* the records it had.
C14_DropTableEffect ==
    \A k \in 1..Len(conn.done) :
        LET r == conn.done[k]
        IN  r.drop \in Tables =>
               /\ r.drop \notin DOMAIN r.after.stores
               /\ r.after.version = r.called.version + 1
               /\ r.drop \notin r.keys
               /\ \A s \in DOMAIN r.stores :
                     /\ s \in DOMAIN r.after.stores
                     /\ s \in DOMAIN r.called.stores =>
                            r.after.stores[s].rows = r.called.stores[s].rows

\* a builder that reads the gate when its terminal method is called
BuilderGateBug(created, called) == called

\* the promise a builder awaits: the value this.#readyPromise had when db.from(table),
\* db.insert(table), db.update(table) or db.delete(table) created it
BuilderGate(created, called) == created

\* db.from(table) / insert / update / delete: new ...Query(table, () => this.#db,
\* this.#readyPromise)
BuilderCreate ==
    /\ ev.st = "none"
    /\ \E t \in Tables :
          ev' = [st |-> "created", tbl |-> t, created |-> readyPromise, gate |-> 0,
                 err |-> "none",
                 migrating |-> FALSE]   \* ghost: called while an open request was pending
    /\ UNCHANGED <<txvars, config, ctor, disk, conn, columns>>

\* a terminal method of the builder: up to  await this.#readyPromise
TerminalCall ==
    /\ ev.st = "created"
    /\ ~DropReady
    /\ ev' = [ev EXCEPT !.st = "awaitsGate", !.gate = BuilderGate(ev.created, readyPromise),
                        !.migrating = (conn.reqs # <<>>)]
    /\ UNCHANGED <<txvars, config, ctor, disk, conn, columns>>

\* the terminal method after the await: this.#dbGetter().transaction(table, mode), which
\* throws InvalidStateError on a connection that has been closed
TerminalRun ==
    /\ TerminalReady
    /\ ev' = IF conn.cur THEN [ev EXCEPT !.st = "opened"]
             ELSE [ev EXCEPT !.st = "rejected", !.err = "InvalidStateError"]
    /\ UNCHANGED <<txvars, config, ctor, disk, conn, columns>>

NextMigrate ==
    \/ DropTableCall
    \/ DropTableStart
    \/ UpgradeNeeded
    \/ OpenSuccess
    \/ BuilderCreate
    \/ TerminalCall
    \/ TerminalRun

SpecMigrate == InitDrop /\ [][NextMigrate]_vars

\* C35: a terminal call of a builder on a table that is not being dropped never opens
\* its transaction on a closed connection, whether the builder was created before or
\* after dropTable started: a call made while the migration is in progress waits
\* until the new connection is ready.
C35_NoCallOnClosedConnection ==
    (ev.st \in {"awaitsGate", "opened", "rejected"}
        /\ (\A k \in 1..Len(conn.reqs) : conn.reqs[k].drop # ev.tbl)
        /\ (\A j \in 1..Len(conn.done) : conn.done[j].drop # ev.tbl)) =>
        /\ ev.st # "rejected"
        /\ (ev.st = "awaitsGate" /\ ev.migrating /\ conn.reqs # <<>>) => ~TerminalReady

\* C34: once dropTable(a) has resolved with the object store a gone, a stays absent
\* from storage: no later dropTable of another table creates it again.
C34_DroppedStaysDropped ==
    \A k \in 1..Len(conn.done) :
        LET r == conn.done[k]
        IN  (r.drop \in Tables /\ r.drop \notin DOMAIN r.after.stores) =>
                r.drop \notin DOMAIN disk.stores

\* C31: the readiness gate is set once, by the constructor: no later operation on the
\* client, dropTable included, replaces it, so every builder waits on the same promise.
C31_GateWriteOnce == [][readyPromise' = readyPromise]_vars

----------------------------------------------------------------------------
(* validateAndPrepareData on the table "docs", for an insert and for an update *)

\* the column definitions of docs { id, f }: id is the primary key
ColumnSets ==
    {[id |-> [PlainColumns["id"] EXCEPT !.auto = a, !.validator = w],
      f |-> [PlainColumns["f"] EXCEPT !.type = ty, !.optional = o, !.default = d,
                                      !.validator = v, !.onUpdate = h]] :
        a \in BOOLEAN, w \in {"none", "never"},
        ty \in {"int", "text", "uuid", "timestamp"}, o \in BOOLEAN,
        d \in {Undef, 1, StrA}, v \in {"none", "any", "never"},
        h \in {"none", "inc", "stamp"}}

FieldValues == {Undef, 1, StrA, UuidV}

\* records a caller passes to values() / set(): any of id and f, with any value
RawRecords == UNION {[fs -> FieldValues] : fs \in SUBSET {"id", "f"}}

\* rows the object store holds
StoredRows == {r \in RawRecords : "id" \in DOMAIN r /\ r["id"] = 1}

\* the first thing validateAndPrepareData throws, "none" when it returns
PrepareError(t, raw, forUpdate) ==
    LET other == CHOOSE c \in ColNames(t) : c # "id"
    IN  IF ~(DOMAIN raw \subseteq ColNames(t)) THEN "UnknownField"
        ELSE IF ~ColumnOk(t, "id", raw, forUpdate) THEN ColumnError(t, "id", raw, forUpdate)
        ELSE ColumnError(t, other, raw, forUpdate)

Evaluated(e, data, forUpdate) ==
    [e EXCEPT !.st = "done",
              !.threw = PrepareError("docs", data, forUpdate),
              !.rec = IF Valid("docs", data, forUpdate)
                      THEN Prepared("docs", data, forUpdate) ELSE NoRec]

\* InsertQuery.run: validateAndPrepareData(data, columns, keyPath, table)
PrepareInsert ==
    /\ ev.st = "called"
    /\ ~ev.forUpdate
    /\ ev' = Evaluated(ev, ev.raw, FALSE)
    /\ UNCHANGED <<txvars, config, ctor, disk, conn, columns>>

\* UpdateQuery.run, one row: validateAndPrepareData({ ...row, ...patch }, ..., true)
PrepareUpdate ==
    /\ ev.st = "called"
    /\ ev.forUpdate
    /\ ev' = Evaluated(ev, UpdatedRow("docs", ev.row, ev.raw), TRUE)
    /\ UNCHANGED <<txvars, config, ctor, disk, conn, columns>>

InitPrepare ==
    /\ TxIdle
    /\ config = NoConfig
    /\ ctor = NoCtor
    /\ disk = NoDisk
    /\ conn = NoConn
    /\ columns \in ColumnSets
    /\ \E raw \in RawRecords \cup {[f |-> StrA, x |-> StrA]} : \E u \in BOOLEAN :
       \E row \in StoredRows :
          /\ u => "id" \notin DOMAIN raw
          /\ ~u => row = [id |-> 1]
          /\ ev = [st |-> "called", raw |-> raw, row |-> row, forUpdate |-> u,
                   threw |-> "none", rec |-> NoRec]

NextPrepare ==
    \/ PrepareInsert
    \/ PrepareUpdate

SpecPrepare == InitPrepare /\ [][NextPrepare]_vars

C16_AbsentColumnPriority ==
    (ev.st = "done" /\ DOMAIN ev.raw \subseteq {"id", "f"}) =>
        LET absent == IF ev.forUpdate THEN {} ELSE {"id", "f"} \ DOMAIN ev.raw
            generated(c) == columns[c].type \in {"uuid", "timestamp"} /\ columns[c].default = Undef
            defaulted(c) == ~generated(c) /\ columns[c].default # Undef
            leftOut(c) == ~generated(c) /\ ~defaulted(c) /\ (columns[c].optional \/ c = "id")
            missing(c) == ~generated(c) /\ ~defaulted(c) /\ ~leftOut(c)
            fits(c) == CASE columns[c].validator = "any" -> TRUE
                         [] columns[c].validator = "never" -> FALSE
                         [] columns[c].type = "int" -> columns[c].default > 0
                         [] columns[c].type = "text" -> columns[c].default < 0
                         [] OTHER -> columns[c].default \in {UuidV, StampV}
        IN  /\ ev.threw = "RequiredFieldMissing" <=>
                  (ev.threw # "InvalidValue" /\ ev.threw # "CannotBeUndefined"
                     /\ \E c \in absent : missing(c))
            /\ \A c \in absent :
                  /\ (defaulted(c) /\ ~fits(c)) => ev.threw # "none"
                  /\ ev.threw = "none" =>
                        /\ generated(c) =>
                              ev.rec[c] = (IF columns[c].type = "uuid" THEN UuidV ELSE StampV)
                        /\ defaulted(c) => ev.rec[c] = columns[c].default
                        /\ leftOut(c) => c \notin DOMAIN ev.rec
            /\ (absent = {"id", "f"} /\ generated("f")) => ev.threw = "none"

C16_Witness ==
    /\ ev.st = "done" /\ ~ev.forUpdate
    /\ ev.raw = <<>>
    /\ columns["f"].type = "uuid"
    /\ columns["f"].default = Undef
    /\ columns["f"].validator = "never"
    /\ ev.threw = "none"
    /\ ev.rec = [f |-> UuidV]

\* C17: a field present with a defined value goes unchecked only on an insert when it
\* is the auto-increment primary key; otherwise a custom validator, when the column has
\* one, decides alone; otherwise the built-in check of the column's type decides.
C17_OneCheckPerField ==
    (/\ ev.st = "done"
     /\ DOMAIN ev.raw \subseteq {"id", "f"}
     /\ ev.forUpdate => columns["f"].onUpdate = "none"
     /\ ~ev.forUpdate => \A c \in {"id", "f"} \ DOMAIN ev.raw : columns[c].default = Undef) =>
        LET data == IF ev.forUpdate THEN Merge(ev.row, ev.raw) ELSE ev.raw
            present == {c \in DOMAIN data : data[c] # Undef}
            skipped(c) == ~ev.forUpdate /\ c = "id" /\ columns[c].auto
            builtIn(c) == CASE columns[c].type = "int" -> data[c] > 0
                            [] columns[c].type = "text" -> data[c] < 0
                            [] columns[c].type = "uuid" -> data[c] = UuidV
                            [] OTHER -> data[c] = StampV
            accepted(c) == \/ skipped(c)
                           \/ columns[c].validator = "any"
                           \/ columns[c].validator = "none" /\ builtIn(c)
        IN  ev.threw = "InvalidValue" <=> \E c \in present : ~accepted(c)

C17_Witness ==
    /\ ev.st = "done" /\ ~ev.forUpdate
    /\ columns["f"].type = "int"
    /\ columns["f"].validator = "any"
    /\ columns["id"].auto /\ columns["id"].validator = "never"
    /\ ev.raw = [id |-> StrA, f |-> StrA]
    /\ ev.threw = "none"
    /\ ev.rec = ev.raw

----------------------------------------------------------------------------
(* SelectQuery on the table people { id: int pk auto, age: int index, tag: text } *)

MaxChain == 3    \* builder calls before the terminal call

\* store.indexNames of people
PeopleIndexes == {"age"}

\* the rows auto-increment inserts of the given ages and tags leave in the store
PeopleRows(ages, tags) == [i \in 1..Len(ages) |-> [id |-> i, age |-> ages[i], tag |-> tags[i]]]

PeopleStores ==
    {PeopleRows(<<10, 40, 25, 40, 5>>, <<StrA, StrB, StrA, StrB, StrA>>),
     PeopleRows(<<25, 10, 25>>, <<StrB, StrA, StrA>>)}

\* no key or key range given
NoQuery == <<>>

\* the objects select() is called with
Selections ==
    {[age |-> TRUE], [age |-> TRUE, tag |-> FALSE], [tag |-> FALSE],
     [id |-> FALSE, tag |-> FALSE], <<>>}

\* #limitCount before limit() is called (undefined)
NoLimit == 0 - 1

\* if (this.#limitCount): a limit that is set and is not 0
HasLimit(n) == n # NoLimit /\ n # 0

\* a key value v is the range <<v, v>>, IDBKeyRange.bound(lo, hi) is <<lo, hi>>
InRange(q, k) == ~KeyLess(k, q[1]) /\ ~KeyLess(q[2], k)

\* this[Selected] before select() is called
NoSelection == <<>>

NoArgs == [key |-> 0, name |-> "none", q |-> NoQuery]

\* a new SelectQuery
NewSelect(rows) ==
    [st |-> "building", rows |-> rows,
     chain |-> <<>>,            \* ghost: the builder calls made, in order, since the
                                \* last terminal call
     used |-> FALSE,            \* ghost: a terminal call on this builder has executed
     whereCondition |-> "none", whereIndexName |-> "none", whereIndexQuery |-> NoQuery,
     orderByKey |-> "none", orderByDir |-> "asc", limitCount |-> NoLimit,
     useIndexCursor |-> FALSE,
     selected |-> NoSelection,
     terminal |-> "none",       \* the terminal call made on the builder
     args |-> NoArgs,           \* the arguments of findByPk / findByIndex
     request |-> "none",        \* the host-engine request the terminal call issued
     out |-> 0,                 \* what count resolved with
     pending |-> <<>>,          \* records the open cursor has still to visit
     results |-> <<>>,
     sorted |-> FALSE]          \* ghost: #sort has sorted the rows in memory

Building == ev.st = "building" /\ Len(ev.chain) < MaxChain

\* data by the field `key`, ascending or descending in key order, rows of equal key
\* keeping their order
Ordered(data, key, dir) ==
    LET n == Len(data)
        Less(a, b) == IF dir = "desc" THEN KeyLess(b[key], a[key]) ELSE KeyLess(a[key], b[key])
        rank(i) == Cardinality({j \in 1..n : Less(data[j], data[i])
                                             \/ (~Less(data[i], data[j]) /\ j < i)})
    IN  [p \in 1..n |-> data[CHOOSE i \in 1..n : rank(i) = p - 1]]

Reverse(data) == [p \in 1..Len(data) |-> data[Len(data) + 1 - p]]

\* sortAnArray(data, { sortOrder, sortByField })
sortAnArray(data, key, dir) == Ordered(data, key, dir)

\* the records of index `key` as a cursor of the given direction visits them: an index
\* holds the rows that have a value at its key path, by key and, for equal keys, by
\* primary key; 'prev' walks it backwards
IndexCursor(rows, key, direction) ==
    LET records == Ordered(SelectSeq(rows, LAMBDA r : key \in DOMAIN r), key, "asc")
    IN  IF direction = "prev" THEN Reverse(records) ELSE records

\* source.getAll(query) on the object store (primary key) or on store.index(name)
IndexGetAll(rows, name, q) ==
    SelectSeq(IF name = "id" THEN rows ELSE IndexCursor(rows, name, "next"),
              LAMBDA r : InRange(q, r[name]))

\* a projection that returns every row whole
projectRowBug(selected, row) == row

\* #projectRow: the row itself without a (non-empty) selection; the fields marked true
\* when there is one; otherwise the row's fields not marked false
projectRow(selected, row) ==
    IF DOMAIN selected = {} THEN row
    ELSE IF \E k \in DOMAIN selected : selected[k]
    THEN [k \in {c \in DOMAIN selected : selected[c]} |->
             IF k \in DOMAIN row THEN row[k] ELSE Undef]
    ELSE [k \in {c \in DOMAIN row : c \notin DOMAIN selected} |-> row[k]]

\* rows.map((row) => this.#projectRow(row))
Projected(e, data) == [i \in 1..Len(data) |-> projectRow(e.selected, data[i])]

applyPipeline(e, data) ==
    LET processed == IF e.orderByKey # "none"
                     THEN sortAnArray(data, e.orderByKey, e.orderByDir) ELSE data
    IN  Projected(e, IF HasLimit(e.limitCount) /\ e.limitCount < Len(processed)
                     THEN SubSeq(processed, 1, e.limitCount) ELSE processed)

\* select(cols)
Select ==
    /\ Building
    /\ \E cols \in Selections :
          ev' = [ev EXCEPT !.selected = cols, !.chain = Append(@, [m |-> "select", cols |-> cols])]
    /\ UNCHANGED <<txvars, config, ctor, disk, conn, columns>>

\* where(predicate)
WherePredicate ==
    /\ Building
    /\ \E p \in {"tagIsA"} :
          ev' = [ev EXCEPT !.whereCondition = p, !.whereIndexName = "none",
                           !.whereIndexQuery = NoQuery,
                           !.chain = Append(@, [m |-> "wherePredicate", p |-> p])]
    /\ UNCHANGED <<txvars, config, ctor, disk, conn, columns>>

\* where(indexName, query)
WhereIndex ==
    /\ Building
    /\ \E name \in {"id", "age", "tag"} : \E q \in {<<40, 40>>, <<2, 25>>} :
          ev' = [ev EXCEPT !.whereIndexName = name, !.whereIndexQuery = q,
                           !.whereCondition = "none",
                           !.chain = Append(@, [m |-> "whereIndex", name |-> name, q |-> q])]
    /\ UNCHANGED <<txvars, config, ctor, disk, conn, columns>>

\* sortByIndex(indexName, dir)
SortByIndex ==
    /\ Building
    /\ \E k \in {"id", "age", "tag"} : \E dir \in {"asc", "desc"} :
          ev' = [ev EXCEPT !.orderByKey = k, !.orderByDir = dir, !.useIndexCursor = TRUE,
                           !.chain = Append(@, [m |-> "sortByIndex", k |-> k, dir |-> dir])]
    /\ UNCHANGED <<txvars, config, ctor, disk, conn, columns>>

\* limit(count)
Limit ==
    /\ Building
    /\ \E n \in {0, 3} :
          ev' = [ev EXCEPT !.limitCount = n, !.chain = Append(@, [m |-> "limit", n |-> n])]
    /\ UNCHANGED <<txvars, config, ctor, disk, conn, columns>>

\* a lookup that takes every name for a key path of the store
buildIndexedStoreBug(name) == TRUE

\* #buildIndexedStore: #isPrimaryKey(store) || #isIndexKey(store), null after reject(...)
buildIndexedStore(name) == name = "id" \/ name \in PeopleIndexes

\* this.#whereIndexName && !isUndefined(this.#whereIndexQuery)
HasIndexQuery(e) == e.whereIndexName # "none" /\ e.whereIndexQuery # NoQuery

\* the branch of findAll / findFirst / count for an index query: the request on the
\* source, or the rejection when there is no such key path
IndexQuery(e, terminal, request) ==
    IF buildIndexedStore(e.whereIndexName)
    THEN [e EXCEPT !.st = "waiting", !.terminal = terminal, !.request = request]
    ELSE [e EXCEPT !.st = "rejected", !.terminal = terminal]

\* findAll, up to the request it issues
FindAll ==
    /\ ev.st = "building"
    /\ ev' = IF HasIndexQuery(ev) THEN IndexQuery(ev, "findAll", "indexGetAll")
             ELSE IF /\ ev.useIndexCursor
                     /\ ev.orderByKey \in PeopleIndexes
                     /\ ev.whereCondition = "none"
             THEN [ev EXCEPT !.st = "waiting", !.terminal = "findAll", !.request = "openCursor",
                             !.pending = IndexCursor(ev.rows, ev.orderByKey,
                                            IF ev.orderByDir = "desc" THEN "prev" ELSE "next")]
             ELSE [ev EXCEPT !.st = "waiting", !.terminal = "findAll", !.request = "getAll"]
    /\ UNCHANGED <<txvars, config, ctor, disk, conn, columns>>

\* findFirst, up to the request it issues
FindFirst ==
    /\ ev.st = "building"
    /\ ev' = IF HasIndexQuery(ev) THEN IndexQuery(ev, "findFirst", "indexGetAll")
             ELSE [ev EXCEPT !.st = "waiting", !.terminal = "findFirst", !.request = "getAll"]
    /\ UNCHANGED <<txvars, config, ctor, disk, conn, columns>>

\* count, up to the request it issues
Count ==
    /\ ev.st = "building"
    /\ ev' = IF HasIndexQuery(ev) THEN IndexQuery(ev, "count", "indexCount")
             ELSE IF ev.whereCondition # "none"
             THEN [ev EXCEPT !.st = "waiting", !.terminal = "count", !.request = "getAll"]
             ELSE [ev EXCEPT !.st = "waiting", !.terminal = "count", !.request = "count"]
    /\ UNCHANGED <<txvars, config, ctor, disk, conn, columns>>

\* findByPk(key), up to the request it issues
FindByPk ==
    /\ ev.st = "building"
    /\ \E key \in {2, 9} :
          ev' = [ev EXCEPT !.st = "waiting", !.terminal = "findByPk", !.request = "get",
                           !.args = [NoArgs EXCEPT !.key = key]]
    /\ UNCHANGED <<txvars, config, ctor, disk, conn, columns>>

\* findByIndex(indexName, query), up to the request it issues
FindByIndex ==
    /\ ev.st = "building"
    /\ \E name \in {"age", "tag"} : \E q \in {<<40, 40>>, <<2, 25>>} :
          ev' = IF name \in PeopleIndexes
                THEN [ev EXCEPT !.st = "waiting", !.terminal = "findByIndex",
                                !.request = "findByIndex",
                                !.args = [NoArgs EXCEPT !.name = name, !.q = q]]
                ELSE [ev EXCEPT !.st = "rejected", !.terminal = "findByIndex",
                                !.args = [NoArgs EXCEPT !.name = name, !.q = q]]
    /\ UNCHANGED <<txvars, config, ctor, disk, conn, columns>>

\* request.onsuccess of store.get(key)
GetSuccess ==
    /\ ev.st = "waiting"
    /\ ev.request = "get"
    /\ LET found == SelectSeq(ev.rows, LAMBDA r : r["id"] = ev.args.key)
       IN  ev' = IF found = <<>> THEN [ev EXCEPT !.st = "resolved"]
                 ELSE IF ev.whereCondition # "none" /\ ~Matches(ev.whereCondition, found[1])
                 THEN [ev EXCEPT !.st = "resolved"]
                 ELSE [ev EXCEPT !.st = "resolved",
                                 !.results = <<projectRow(ev.selected, found[1])>>]
    /\ UNCHANGED <<txvars, config, ctor, disk, conn, columns>>

\* request.onsuccess of source.getAll(query), of index.getAll(query) and of store.getAll()
GetAllSuccess ==
    /\ ev.st = "waiting"
    /\ ev.request \in {"indexGetAll", "getAll", "findByIndex"}
    /\ LET kept(data) == IF ev.whereCondition # "none"
                         THEN SelectSeq(data, LAMBDA r : Matches(ev.whereCondition, r))
                         ELSE data
           got == IF ev.request = "indexGetAll"
                  THEN IndexGetAll(ev.rows, ev.whereIndexName, ev.whereIndexQuery)
                  ELSE IF ev.request = "findByIndex"
                  THEN kept(IndexGetAll(ev.rows, ev.args.name, ev.args.q))
                  ELSE kept(ev.rows)
           processed == applyPipeline(ev, got)
       IN  ev' = IF ev.terminal = "count"
                 THEN [ev EXCEPT !.st = "resolved", !.out = Len(got)]
                 ELSE [ev EXCEPT !.st = "resolved",
                                 !.results = IF ev.terminal = "findFirst" /\ processed # <<>>
                                             THEN <<processed[1]>> ELSE processed,
                                 !.sorted = ev.orderByKey # "none"]
    /\ UNCHANGED <<txvars, config, ctor, disk, conn, columns>>

\* request.onsuccess of source.count(query) and of store.count()
CountSuccess ==
    /\ ev.st = "waiting"
    /\ ev.request \in {"indexCount", "count"}
    /\ ev' = [ev EXCEPT !.st = "resolved",
                        !.out = IF ev.request = "count" THEN Len(ev.rows)
                                ELSE Len(IndexGetAll(ev.rows, ev.whereIndexName,
                                                     ev.whereIndexQuery))]
    /\ UNCHANGED <<txvars, config, ctor, disk, conn, columns>>

\* request.onsuccess of index.openCursor(null, direction): one record, or the end
CursorSuccess ==
    /\ ev.st = "waiting"
    /\ ev.request = "openCursor"
    /\ ev' = IF ev.pending = <<>>
             THEN [ev EXCEPT !.st = "resolved", !.results = Projected(ev, @)]
             ELSE LET results == Append(ev.results, Head(ev.pending))
                  IN  IF HasLimit(ev.limitCount) /\ Len(results) >= ev.limitCount
                      THEN [ev EXCEPT !.st = "resolved", !.results = Projected(ev, results)]
                      ELSE [ev EXCEPT !.results = results, !.pending = Tail(@)]
    /\ UNCHANGED <<txvars, config, ctor, disk, conn, columns>>

InitSelect ==
    /\ TxIdle
    /\ config = NoConfig
    /\ ctor = NoCtor
    /\ disk = NoDisk
    /\ conn = NoConn
    /\ columns = PlainColumns
    /\ \E rows \in PeopleStores : ev = NewSelect(rows)

NextSelect ==
    \/ WherePredicate
    \/ WhereIndex
    \/ SortByIndex
    \/ Limit
    \/ FindAll
    \/ FindFirst
    \/ Count
    \/ GetAllSuccess
    \/ CountSuccess
    \/ CursorSuccess

SpecSelect == InitSelect /\ [][NextSelect]_vars

\* C18: findAll after sortByIndex(k, dir) reads its rows through a cursor of direction
\* dir exactly when no predicate filter is set and k is a declared index or the primary
\* key; in every other case the filtered rows come back sorted in memory by k.
C18_CursorExactlyWhenIndexOrPk ==
    (ev.st = "resolved" /\ ev.terminal = "findAll" /\ ev.useIndexCursor) =>
        /\ ev.request = "openCursor" <=>
              (ev.whereCondition = "none" /\ ev.orderByKey \in PeopleIndexes \cup {"id"})
        /\ ev.request # "openCursor" => ev.sorted

\* C19: on rows inserted with ages [10, 40, 25, 40, 5],
\* sortByIndex('age', 'desc').limit(3).findAll() returns the ages 40, 40, 25 with the two
\* rows of age 40 in the order of their insertion, and sorts nothing in memory.
C19_DescLimitKeepsInsertionOrder ==
    (/\ ev.st = "resolved" /\ ev.terminal = "findAll"
     /\ Len(ev.rows) = 5
     /\ ev.chain = <<[m |-> "sortByIndex", k |-> "age", dir |-> "desc"], [m |-> "limit", n |-> 3]>>) =>
        /\ ev.results = <<ev.rows[2], ev.rows[4], ev.rows[3]>>
        /\ ~ev.sorted

\* C20: after both an index / primary-key filter and a predicate filter were set,
\* findAll returns exactly the rows whose key is in the given range and that satisfy
\* the predicate.
C20_IndexAndPredicateFilter ==
    LET idx == SelectSeq(ev.chain, LAMBDA c : c.m = "whereIndex")
        prd == SelectSeq(ev.chain, LAMBDA c : c.m = "wherePredicate")
        name == idx[Len(idx)].name
        q == idx[Len(idx)].q
        p == prd[Len(prd)].p
    IN  (/\ ev.st = "resolved" /\ ev.terminal = "findAll"
         /\ idx # <<>> /\ prd # <<>>
         /\ name \in PeopleIndexes \cup {"id"}) =>
            {ev.results[i] : i \in 1..Len(ev.results)}
                = {r \in {ev.rows[i] : i \in 1..Len(ev.rows)} :
                       InRange(q, r[name]) /\ Matches(p, r)}

C21_WitnessFound ==
    /\ ev.st = "resolved"
    /\ ev.terminal = "findFirst"
    /\ ev.whereIndexName = "age"
    /\ ev.whereIndexQuery = <<40, 40>>
    /\ Len(ev.rows) = 5
    /\ ev.results = <<ev.rows[2]>>

\* C29: after limit(n), for every integer n >= 0, findAll returns exactly min(n, m) rows,
\* m being the number of rows the filter keeps, and so never more than n rows, whether
\* the rows come from a cursor or are sorted in memory.
C29_LimitBoundsResult ==
    (ev.st = "resolved" /\ ev.terminal = "findAll" /\ ev.limitCount # NoLimit) =>
        LET n == ev.limitCount
            m == IF HasIndexQuery(ev)
                 THEN Len(IndexGetAll(ev.rows, ev.whereIndexName, ev.whereIndexQuery))
                 ELSE IF ev.whereCondition # "none"
                 THEN Len(SelectSeq(ev.rows, LAMBDA r : Matches(ev.whereCondition, r)))
                 ELSE Len(ev.rows)
        IN  /\ Len(ev.results) = (IF n < m THEN n ELSE m)
            /\ Len(ev.results) <= n
            /\ \A i \in 1..Len(ev.results) : \E j \in 1..Len(ev.rows) : ev.results[i] = ev.rows[j]

----------------------------------------------------------------------------
(* SelectQuery: select(cols) and the terminal calls that return rows *)

NextProject ==
    \/ Select
    \/ WherePredicate
    \/ SortByIndex
    \/ FindAll
    \/ FindFirst
    \/ FindByPk
    \/ FindByIndex
    \/ GetAllSuccess
    \/ GetSuccess
    \/ CursorSuccess

SpecProject == InitSelect /\ [][NextProject]_vars

\* C28: findAll, findFirst, findByIndex and findByPk project every row they return by
\* one rule: with an entry marked true, only the fields marked true; with entries but
\* none true, every field except those marked false; without a projection, the whole row.
C28_ProjectionRule ==
    (ev.st = "resolved" /\ ev.terminal \in {"findAll", "findFirst", "findByIndex", "findByPk"}) =>
        LET sel == ev.selected
            trues == {k \in DOMAIN sel : sel[k]}
            falses == {k \in DOMAIN sel : ~sel[k]}
        IN  \A i \in 1..Len(ev.results) :
                LET r == ev.results[i]
                IN  /\ trues # {} => DOMAIN r = trues
                    /\ trues = {} => DOMAIN r = {"id", "age", "tag"} \ falses
                    /\ \E j \in 1..Len(ev.rows) :
                          /\ \A k \in DOMAIN r : r[k] = ev.rows[j][k]
                          /\ ev.terminal = "findByPk" => ev.rows[j]["id"] = ev.args.key

C28_Witness ==
    /\ ev.st = "resolved" /\ ev.terminal = "findByPk"
    /\ ev.selected = [age |-> TRUE, tag |-> FALSE]
    /\ ev.results = <<[age |-> 40]>>

\* the other terminal calls with a projection
C28_WitnessCursor ==
    /\ ev.st = "resolved" /\ ev.terminal = "findAll" /\ ev.request = "openCursor"
    /\ ev.selected = [id |-> FALSE, tag |-> FALSE]
    /\ Len(ev.results) = 5 /\ ev.results[1] = [age |-> 5]

C28_WitnessByIndex ==
    /\ ev.st = "resolved" /\ ev.terminal = "findByIndex"
    /\ ev.selected = [tag |-> FALSE]
    /\ ev.results = <<[id |-> 2, age |-> 40], [id |-> 4, age |-> 40]>>

C28_WitnessFirst ==
    /\ ev.st = "resolved" /\ ev.terminal = "findFirst"
    /\ ev.selected = [age |-> TRUE]
    /\ ev.results = <<[age |-> 10]>>

----------------------------------------------------------------------------
(* SelectQuery on people when age is declared int().optional().index(): a row inserted
   without an age has no such field *)

SparseStores ==
    {<<[id |-> 1, age |-> 30, tag |-> StrA], [id |-> 2, tag |-> StrB],
       [id |-> 3, age |-> 10, tag |-> StrA]>>,
     <<[id |-> 1, tag |-> StrB]>>}

InitSparse ==
    /\ TxIdle
    /\ config = NoConfig
    /\ ctor = NoCtor
    /\ disk = NoDisk
    /\ conn = NoConn
    /\ columns = PlainColumns
    /\ \E rows \in SparseStores : ev = NewSelect(rows)

\* index queries are made on the index age or on the undeclared name tag
NextSparse ==
    \/ WherePredicate
    \/ WhereIndex /\ ev'.whereIndexName # "id"
    \/ SortByIndex
    \/ Limit
    \/ FindAll
    \/ Count
    \/ GetAllSuccess
    \/ CountSuccess
    \/ CursorSuccess

SpecSparse == InitSparse /\ [][NextSparse]_vars

\* rows.filter(this.#whereCondition) when a predicate is set
Filtered(e, data) ==
    IF e.whereCondition # "none"
    THEN SelectSeq(data, LAMBDA r : Matches(e.whereCondition, r)) ELSE data

\* the two sequences hold the same rows, each as many times
SameCollection(a, b) ==
    /\ Len(a) = Len(b)
    /\ \A i \in 1..Len(a) :
          Cardinality({j \in 1..Len(a) : a[j] = a[i]}) = Cardinality({j \in 1..Len(b) : b[j] = a[i]})

\* what findAll() resolves with for the plan e (its index query has a source)
FindAllRows(e) ==
    IF HasIndexQuery(e)
    THEN applyPipeline(e, IndexGetAll(e.rows, e.whereIndexName, e.whereIndexQuery))
    ELSE IF e.useIndexCursor /\ e.orderByKey \in PeopleIndexes /\ e.whereCondition = "none"
    THEN LET visited == IndexCursor(e.rows, e.orderByKey,
                                    IF e.orderByDir = "desc" THEN "prev" ELSE "next")
         IN  Projected(e, IF HasLimit(e.limitCount) /\ e.limitCount < Len(visited)
                          THEN SubSeq(visited, 1, e.limitCount) ELSE visited)
    ELSE applyPipeline(e, Filtered(e, e.rows))

\* what count() resolves with for the plan e (its index query has a source)
CountRows(e) ==
    IF HasIndexQuery(e)
    THEN Len(IndexGetAll(e.rows, e.whereIndexName, e.whereIndexQuery))
    ELSE IF e.whereCondition # "none" THEN Len(Filtered(e, e.rows))
    ELSE Len(e.rows)

\* exists(): count > 0
Exists(e) == CountRows(e) > 0

\* the plan e without its sort
Unsorted(e) == [e EXCEPT !.orderByKey = "none", !.orderByDir = "asc", !.useIndexCursor = FALSE]

\* C38: sortByIndex(k, dir).findAll() with no limit, k a declared index, returns the same
\* collection of rows as findAll() of the same plan without the sort, also when some
\* rows have no value for k.
C38_SortKeepsCollection ==
    (/\ ev.st = "resolved" /\ ev.terminal = "findAll"
     /\ ev.useIndexCursor /\ ev.orderByKey \in PeopleIndexes
     /\ ev.limitCount = NoLimit)
        => SameCollection(ev.results, FindAllRows(Unsorted(ev)))

\* C39: for a plan with no limit, count() resolves with the number of rows findAll()
\* resolves with for the same plan and contents, whichever request each of them makes,
\* and exists() is true exactly when that number is greater than zero.
C39_CountMatchesFindAll ==
    (ev.st = "resolved" /\ ev.limitCount = NoLimit) =>
        /\ ev.terminal = "count" =>
              /\ ev.out = Len(FindAllRows(ev))
              /\ (ev.out > 0) <=> (Len(FindAllRows(ev)) > 0)
        /\ ev.terminal = "findAll" =>
              /\ Len(ev.results) = CountRows(ev)
              /\ Exists(ev) <=> (Len(ev.results) > 0)

\* the terminal calls resolve with what FindAllRows and CountRows compute
TerminalsAsComputed ==
    ev.st = "resolved" =>
        /\ ev.terminal = "findAll" => ev.results = FindAllRows(ev)
        /\ ev.terminal = "count" => ev.out = CountRows(ev)

----------------------------------------------------------------------------
(* SelectQuery: a second terminal call on the same builder *)

\* the builder after a terminal call has settled, ready for the next call made on it:
\* no terminal method assigns a field of the plan
CallAgain ==
    /\ ev.st \in {"resolved", "rejected"}
    /\ ~ev.used
    /\ ev' = [ev EXCEPT !.st = "building", !.used = TRUE, !.chain = <<>>,
                        !.terminal = "none", !.request = "none", !.out = 0,
                        !.pending = <<>>, !.results = <<>>, !.sorted = FALSE]
    /\ UNCHANGED <<txvars, config, ctor, disk, conn, columns>>

NextReuse ==
    \/ Select
    \/ WherePredicate
    \/ SortByIndex
    \/ Limit
    \/ FindAll
    \/ GetAllSuccess
    \/ CursorSuccess
    \/ CallAgain

SpecReuse == InitSelect /\ [][NextReuse]_vars

\* C33: a plan is consumed by the terminal call that executes it: a second findAll on
\* the same builder, made without calling where, sortByIndex, limit or select again,
\* runs with no filter, no sort, no limit and no projection.
C33_PlanConsumedOnce ==
    (ev.used /\ ev.chain = <<>>) =>
        /\ ev.whereCondition = "none" /\ ~HasIndexQuery(ev)
        /\ ev.orderByKey = "none" /\ ~ev.useIndexCursor
        /\ ev.limitCount = NoLimit
        /\ ev.selected = NoSelection
        /\ (ev.st = "resolved" /\ ev.terminal = "findAll") => ev.results = ev.rows

----------------------------------------------------------------------------
(* SelectQuery.page: cursor-based pagination over people *)

MaxRows == 4     \* rows of a paginated table
MaxPages == 4    \* page calls in one behaviour

\* tables of one to MaxRows rows with any ages
PageStores ==
    {PeopleRows(ages, [i \in DOMAIN ages |-> StrA]) :
        ages \in UNION {[1..n -> {10, 25, 40}] : n \in 1..MaxRows}}

\* page({ cursor, limit }) after sortByIndex(k, dir): the scan in index order starts at
\* the first record whose key is not before the cursor, collects up to limit records,
\* and nextCursor is the key of the first record not collected, undefined at the end
Page(rows, k, dir, cursor, limit) ==
    LET scan == IndexCursor(rows, k, IF dir = "desc" THEN "prev" ELSE "next")
        from == IF isUndefined(cursor) THEN scan
                ELSE SelectSeq(scan, LAMBDA r : IF dir = "desc" THEN ~KeyLess(cursor, r[k])
                                                ELSE ~KeyLess(r[k], cursor))
    IN  [items |-> IF limit < Len(from) THEN SubSeq(from, 1, limit) ELSE from,
         nextCursor |-> IF limit < Len(from) THEN from[limit + 1][k] ELSE Undef]

\* the caller's loop: the rows collected so far and the cursor for the next call
Paged(e, page) ==
    [e EXCEPT !.st = IF isUndefined(page.nextCursor) THEN "done" ELSE "paging",
              !.seen = @ \o page.items, !.cursor = page.nextCursor, !.pages = @ + 1]

\* page({ limit: 2 })
PageFirst ==
    /\ ev.st = "start"
    /\ ev' = Paged(ev, Page(ev.rows, ev.k, ev.dir, Undef, 2))
    /\ UNCHANGED <<txvars, config, ctor, disk, conn, columns>>

\* page({ limit: 2, cursor: previous.nextCursor })
PageNext ==
    /\ ev.st = "paging"
    /\ ev.pages < MaxPages
    /\ ev' = Paged(ev, Page(ev.rows, ev.k, ev.dir, ev.cursor, 2))
    /\ UNCHANGED <<txvars, config, ctor, disk, conn, columns>>

InitPage ==
    /\ TxIdle
    /\ config = NoConfig
    /\ ctor = NoCtor
    /\ disk = NoDisk
    /\ conn = NoConn
    /\ columns = PlainColumns
    /\ \E rows \in PageStores : \E k \in {"id", "age"} : \E dir \in {"asc", "desc"} :
          ev = [st |-> "start", rows |-> rows, k |-> k, dir |-> dir,
                cursor |-> Undef, seen |-> <<>>, pages |-> 0]

NextPage ==
    \/ PageFirst
    \/ PageNext

SpecPage == InitPage /\ [][NextPage]_vars

\* C22: page({limit: 2}) followed by page calls with each nextCursor returns every row
\* of the table exactly once, in index order, and ends with nextCursor absent once
\* every row was returned.
C22_PagesEnumerateOnce ==
    ev.st \in {"paging", "done"} =>
        /\ \A i, j \in 1..Len(ev.seen) : i # j => ev.seen[i] # ev.seen[j]
        /\ \A i \in 1..Len(ev.seen) - 1 :
              IF ev.dir = "desc" THEN ~KeyLess(ev.seen[i][ev.k], ev.seen[i + 1][ev.k])
              ELSE ~KeyLess(ev.seen[i + 1][ev.k], ev.seen[i][ev.k])
        /\ ev.st = "done" <=> Len(ev.seen) = Len(ev.rows)
        /\ ev.st = "paging" =>
              \E r \in {ev.rows[i] : i \in 1..Len(ev.rows)} \ {ev.seen[i] : i \in 1..Len(ev.seen)} :
                  r[ev.k] = ev.cursor

----------------------------------------------------------------------------
(* exportToObject and import on the table "docs", one call per step: a call that
   fails leaves the table as it was (the transaction is aborted) *)

\* docs { id: int pk auto, f }: f is a text or uuid column, maybe optional or with a default
SnapshotColumns ==
    {[PlainColumns EXCEPT !["f"].type = ty, !["f"].optional = o, !["f"].default = d] :
        ty \in {"text", "uuid"}, o \in BOOLEAN, d \in {Undef, StrA}}

\* contents of docs: rows written under this schema hold f, rows written before the
\* column f was declared (an earlier version of the database) do not
SnapshotStores ==
    {x \in SUBSET ({[id |-> k] : k \in {1, 2}}
                   \cup {[id |-> k, f |-> v] : k \in {1, 2}, v \in {StrA, StrB}}) :
        \A a, b \in x : a # b => a["id"] # b["id"]}

\* the n-th string uuidV4() returns: no two calls return the same one
Fresh(n) == 0 - (10 + n)

\* validateAndPrepareData(row, ...) when n values have been generated before
PreparedFresh(row, n) ==
    LET prepared == Prepared("docs", row, FALSE)
    IN  [c \in DOMAIN prepared |->
            IF AutoGenerated("docs", c, row, FALSE) /\ Col("docs", c).type = "uuid"
            THEN Fresh(n) ELSE prepared[c]]

\* the rows of one table written in order by store.add / store.put: the contents and
\* the number of generated values after them, ok = FALSE when a row is refused
RECURSIVE ImportedRows(_, _, _)
ImportedRows(acc, rows, mode) ==
    IF rows = <<>> \/ ~acc.ok THEN acc
    ELSE LET row == Head(rows)
             rec == PreparedFresh(row, acc.made)
             fails == IF mode = "upsert" THEN PutFails(acc.w, "docs", rec)
                      ELSE AddFails(acc.w, "docs", rec)
             made == IF \E c \in DOMAIN rec : rec[c] = Fresh(acc.made)
                     THEN acc.made + 1 ELSE acc.made
         IN  IF ~Valid("docs", row, FALSE) \/ fails THEN [acc EXCEPT !.ok = FALSE]
             ELSE ImportedRows([acc EXCEPT !.w = AfterPut(acc.w, "docs", rec), !.made = made],
                               Tail(rows), mode)

\* exportToObject(): data.docs = store.getAll()
SnapshotExport ==
    /\ ev.st = "idle"
    /\ ev' = [ev EXCEPT !.st = "exported", !.at = ev.w.rows["docs"],
                        !.snapshot = RowsInKeyOrder("docs", ev.w.rows["docs"])]
    /\ UNCHANGED <<txvars, config, ctor, disk, conn, columns>>

\* import(snapshot, { mode }), to the end of its transaction
SnapshotImport ==
    /\ ev.st = "exported"
    /\ Len(ev.log) < 2
    /\ \E mode \in {"merge", "replace", "upsert"} :
          LET start == IF mode = "replace" THEN AfterClear(ev.w, "docs") ELSE ev.w
              done == ImportedRows([ok |-> TRUE, w |-> start, made |-> ev.made],
                                   ev.snapshot, mode)
          IN  ev' = [ev EXCEPT !.log = Append(@, [mode |-> mode, ok |-> done.ok,
                                                  before |-> ev.w.rows["docs"]]),
                               !.w = IF done.ok THEN done.w ELSE @,
                               !.made = IF done.ok THEN done.made ELSE @]
    /\ UNCHANGED <<txvars, config, ctor, disk, conn, columns>>

InitSnapshot ==
    /\ TxIdle
    /\ config = NoConfig
    /\ ctor = NoCtor
    /\ disk = NoDisk
    /\ conn = NoConn
    /\ columns \in SnapshotColumns
    /\ \E rows \in SnapshotStores :
          ev = [st |-> "idle", w |-> [rows |-> [docs |-> rows], gen |-> [docs |-> 3]],
                at |-> {}, snapshot |-> <<>>, made |-> 0, log |-> <<>>]

NextSnapshot ==
    \/ SnapshotExport
    \/ SnapshotImport

SpecSnapshot == InitSnapshot /\ [][NextSnapshot]_vars

\* C23: importing in replace mode what exportToObject just returned leaves the table
\* with the records, field for field, it held when it was exported.
C23_ExportImportRoundTrip ==
    (Len(ev.log) >= 1 /\ ev.log[1].mode = "replace") =>
        (Len(ev.log) = 1 => ev.w.rows["docs"] = ev.at)

\* C24: after a second import of the same snapshot in upsert mode the table holds what
\* it held after the first.
C24_UpsertTwiceIdempotent ==
    (Len(ev.log) = 2 /\ ev.log[1].mode = "upsert" /\ ev.log[2].mode = "upsert") =>
        ev.w.rows["docs"] = ev.log[2].before

----------------------------------------------------------------------------
(* Import modes *)

\* C25: for an import with a row whose primary key is already in the table: upsert
\* overwrites the record and succeeds, merge fails as an insert would; neither clears
\* the table before writing, replace does.
C25_ImportModes ==
    (imp.tx # 0 /\ Finished(txs[imp.tx])) =>
        LET ts == DOMAIN imp.data
            given(t) == {imp.data[t][i] : i \in 1..Len(imp.data[t])}
            keys(S) == {r["id"] : r \in S}
            collides == \E t \in ts : keys(given(t)) \cap keys(pre.rows[t]) # {}
            last(t, k) == imp.data[t][CHOOSE i \in 1..Len(imp.data[t]) :
                                         /\ imp.data[t][i]["id"] = k
                                         /\ \A j \in (i + 1)..Len(imp.data[t]) :
                                               imp.data[t][j]["id"] # k]
            wellTyped == \A t \in ts : \A r \in given(t) :
                            \A c \in DOMAIN r : c # "id" => r[c] < 0
            \* no two records with different keys share an email
            apart(S) == \A a, b \in S :
                           (a["id"] # b["id"] /\ "email" \in DOMAIN a /\ "email" \in DOMAIN b)
                               => a["email"] # b["email"]
            committed == txs[imp.tx].state = "committed"
        IN  /\ (imp.mode = "merge" /\ collides) => (imp.st = "rejected" /\ store = pre)
            /\ (imp.mode = "upsert" /\ wellTyped /\ \A t \in ts : apart(given(t) \cup pre.rows[t]))
                  => imp.st = "fulfilled"
            /\ (imp.mode = "upsert" /\ committed) =>
                  \A t \in ts :
                      store.rows[t] = {r \in pre.rows[t] : r["id"] \notin keys(given(t))}
                                      \cup {last(t, k) : k \in keys(given(t))}
            /\ (imp.mode = "merge" /\ committed) =>
                  \A t \in ts : store.rows[t] = pre.rows[t] \cup given(t)
            /\ (imp.mode = "replace" /\ wellTyped
                  /\ \A t \in ts : apart(given(t))
                                   /\ Cardinality(keys(given(t))) = Len(imp.data[t]))
                  => imp.st = "fulfilled"
            /\ (imp.mode = "replace" /\ committed) => \A t \in ts : store.rows[t] = given(t)

C25_Witness ==
    /\ imp.st = "fulfilled"
    /\ imp.mode = "upsert"
    /\ imp.tx # 0
    /\ txs[imp.tx].state = "committed"
    /\ pre.rows["users"] = {[id |-> 1, email |-> StrB]}
    /\ store.rows["users"] = {[id |-> 1, email |-> StrA]}

====
